---- MODULE Spec2Model ----
(***************************************************************************)
(* CalendarApp: the event scheduling and retrieval engine.                 *)
(*                                                                         *)
(* CalendarService (create / update / delete / startup sweep), the view    *)
(* services' range queries and the recurrence date arithmetic, over a      *)
(* store of event rows.  The persistence collaborator the services call    *)
(* (insert_event, get_event_by_id, get_events_for_month, ...) is modelled  *)
(* from its contract in the specification, section 6.                      *)
(*                                                                         *)
(* A datetime.date is a record [year, month, day]; an operation on dates   *)
(* that raises in the program has the value ValueError or OverflowError.   *)
(*                                                                         *)
(* A str is the sequence of its code points ("Ab" is <<65, 98>>), written  *)
(* str("Ab"); None is <<-1>> where a str may be absent, NoDate where a     *)
(* date may be absent, and 0 where an id may be absent.  The texts of the  *)
(* messages, the names of the formats and of the dict keys are TLA+        *)
(* strings: the program compares them with nothing.                        *)
(*                                                                         *)
(* A date string, as strftime("%Y-%m-%d") writes it, is a number that      *)
(* compares with another one as the two strings compare.  With a year of   *)
(* four digits the string is "YYYY-MM-DD" and the number is YYYYMMDD.  A   *)
(* year below 1000 is written without leading zeros ("999-12-31",          *)
(* "1-01-01"); such a string lies just below the strings of the first      *)
(* year of four digits that begins with its digits (first), and its number *)
(* is (first - 1) * 10000 + 2000 * (number of digits) + MMDD: 99897231 is  *)
(* "999-12-31" and 9992101 is "1-01-01".                                   *)
(***************************************************************************)
EXTENDS Integers, Sequences, FiniteSets, TLC

VARIABLES
    today,      \* datetime.date.today(), the process clock
    events,     \* the rows of the store's events table
    next_id,    \* the id the store assigns to the next inserted row
    result,     \* the last operation: its name, arguments and return value
    prev,       \* the rows of the store when the last operation began
    hist        \* history: the id blocks of the creates, the deletes and store errors so far

vars == <<today, events, next_id, result, prev, hist>>

-----------------------------------------------------------------------------
(* Bounds of the exploration.                                              *)

\* create requests that pass validation, per behaviour
MaxCreates == 2
\* delete requests per behaviour
MaxDeletes == 1
\* operations per behaviour in which a call of the store raises
MaxFaultyOps == 1
\* the occurrence indexes 0..MaxFaultIndex at which a single insert may fail
MaxFaultIndex == 1
\* how many ids of each create request the delete requests are aimed at
ProbesPerBlock == 2
\* the recurrence arithmetic is explored from every day of this many years
GenYears == 2
\* update_event calls of a run
MaxUpdates == 1

-----------------------------------------------------------------------------
(* Dates: datetime.date, calendar.monthrange, strftime / strptime.         *)

NoDate == [year |-> 0, month |-> 0, day |-> 0]

Date(y, m, d) == [year |-> y, month |-> m, day |-> d]

\* datetime.MINYEAR, datetime.MAXYEAR and date.max.toordinal()
MINYEAR == 1
MAXYEAR == 9999
MAX_ORDINAL == 3652059

\* the operation raises ValueError / OverflowError instead of returning a date
ValueError == [raises |-> "ValueError"]
OverflowError == [raises |-> "OverflowError"]

\* None.lower(): 'NoneType' object has no attribute 'lower'
AttributeError == [raises |-> "AttributeError"]

raises(value) == "raises" \in DOMAIN value

is_leap(y) == (y % 4 = 0) /\ ((y % 100 # 0) \/ (y % 400 = 0))

\* calendar.monthrange(year, month)[1]
monthrange(y, m) ==
    IF m = 2 THEN (IF is_leap(y) THEN 29 ELSE 28)
    ELSE IF m \in {4, 6, 9, 11} THEN 30 ELSE 31

\* self.DATABASE_DATE_FORMAT of CalendarService, and the default of the
\* parameter database_date_format of FilterService
DATABASE_DATE_FORMAT == "%Y-%m-%d"
DATE_FORMAT == "%d-%m-%Y"

\* the number of digits %Y writes for the year: it does not pad with zeros
year_digits(y) == IF y >= 1000 THEN 4 ELSE IF y >= 100 THEN 3 ELSE IF y >= 10 THEN 2 ELSE 1

\* date.strftime("%Y-%m-%d")
strftime(dt) ==
    IF dt.year >= 1000 THEN dt.year * 10000 + dt.month * 100 + dt.day
    ELSE LET digits == year_digits(dt.year)
             first == dt.year * (IF digits = 3 THEN 10 ELSE IF digits = 2 THEN 100 ELSE 1000)
         IN (first - 1) * 10000 + 2000 * digits + dt.month * 100 + dt.day

\* datetime.strptime(s, format) raises ValueError.  Under "%Y-%m-%d": s is
\* not four digits of a year from 1 on, a month and a day of that month.
\* Under "%d-%m-%Y": always, no string that strftime("%Y-%m-%d") writes
\* begins with a day and ends with a year of four digits
strptime_raises(s, format) ==
    IF format = DATABASE_DATE_FORMAT
    THEN \/ s \div 10000 \notin MINYEAR..MAXYEAR
         \/ (s \div 100) % 100 \notin 1..12
         \/ s % 100 \notin 1..monthrange(s \div 10000, (s \div 100) % 100)
    ELSE TRUE

\* datetime.strptime(s, format).date()
strptime(s, format) ==
    IF strptime_raises(s, format) THEN ValueError
    ELSE Date(s \div 10000, (s \div 100) % 100, s % 100)

\* date.__lt__
date_lt(a, b) ==
    \/ a.year < b.year
    \/ a.year = b.year /\ a.month < b.month
    \/ a.year = b.year /\ a.month = b.month /\ a.day < b.day

\* date.toordinal(): days since 0001-01-01, that day being 1
days_before_year(y) == (y - 1) * 365 + (y - 1) \div 4 - (y - 1) \div 100 + (y - 1) \div 400

RECURSIVE days_before_month(_, _)
days_before_month(y, m) ==
    IF m = 1 THEN 0 ELSE days_before_month(y, m - 1) + monthrange(y, m - 1)

toordinal(dt) == days_before_year(dt.year) + days_before_month(dt.year, dt.month) + dt.day

\* date.fromordinal(n): ValueError outside 1..date.max.toordinal()
fromordinal(ordinal) ==
    LET n0 == ordinal - 1
        n400 == n0 \div 146097
        r400 == n0 % 146097
        n100 == r400 \div 36524
        r100 == r400 % 36524
        n4 == r100 \div 1461
        r4 == r100 % 1461
        n1 == r4 \div 365
        n == r4 % 365
        year == n400 * 400 + 1 + n100 * 100 + n4 * 4 + n1
        leapyear == n1 = 3 /\ (n4 # 24 \/ n100 = 3)
        estimate == (n + 50) \div 32
        before(m) == days_before_month(2023, m) + (IF m > 2 /\ leapyear THEN 1 ELSE 0)
        month == IF before(estimate) > n THEN estimate - 1 ELSE estimate
    IN IF ordinal \notin 1..MAX_ORDINAL THEN ValueError
       ELSE IF n1 = 4 \/ n100 = 4 THEN Date(year - 1, 12, 31)
       ELSE Date(year, month, n - before(month) + 1)

\* date + datetime.timedelta(days=n): OverflowError when the sum is not a
\* day of the years MINYEAR..MAXYEAR
add_days(dt, n) ==
    IF toordinal(dt) + n \notin 1..MAX_ORDINAL THEN OverflowError
    ELSE fromordinal(toordinal(dt) + n)

\* the day after dt, by the calendar: date + datetime.timedelta(days=1)
next_day(dt) ==
    IF dt = Date(MAXYEAR, 12, 31) THEN OverflowError
    ELSE IF dt.day < monthrange(dt.year, dt.month) THEN Date(dt.year, dt.month, dt.day + 1)
    ELSE IF dt.month < 12 THEN Date(dt.year, dt.month + 1, 1)
    ELSE Date(dt.year + 1, 1, 1)

\* date.replace(year=y, month=m, day=d): ValueError when the year is out of
\* range or the day does not exist in the month
replace(y, m, d) ==
    IF y \notin MINYEAR..MAXYEAR \/ d \notin 1..monthrange(y, m) THEN ValueError
    ELSE Date(y, m, d)

\* dt.replace(year=y, month=m) and dt.replace(year=y) raise ValueError
replace_raises(dt, y, m) == raises(replace(y, m, dt.day))

-----------------------------------------------------------------------------
(* Strings.                                                                *)

\* the characters of the literals, in the order of their code points: those
\* from 32 (space) to 95, and those from 97 (a) to 126
ASCII_32_95 == " !\"#$%&'()*+,-./0123456789:;<=>?@ABCDEFGHIJKLMNOPQRSTUVWXYZ[\\]^_"
ASCII_97_126 == "abcdefghijklmnopqrstuvwxyz{|}~"

\* ord(c) of a character of a literal
ord(c) ==
    IF \E i \in 1..Len(ASCII_32_95) : SubSeq(ASCII_32_95, i, i) = c
    THEN 31 + (CHOOSE i \in 1..Len(ASCII_32_95) : SubSeq(ASCII_32_95, i, i) = c)
    ELSE 96 + (CHOOSE i \in 1..Len(ASCII_97_126) : SubSeq(ASCII_97_126, i, i) = c)

\* the str that the program text writes as the literal s
str(s) == [i \in 1..Len(s) |-> ord(SubSeq(s, i, i))]

None == <<-1>>

\* the literals the program compares strings with
ALL_DAY == str("All Day")
DAILY == str("daily")
WEEKLY == str("weekly")
MONTHLY == str("monthly")
YEARLY == str("yearly")

\* the characters str.strip() removes: \t, \n, \v, \f, \r, U+001C to U+001F,
\* space, U+0085, U+00A0, U+1680, U+2000 to U+200A, U+2028, U+2029, U+202F,
\* U+205F and U+3000
WHITESPACE ==
    (9..13) \cup (28..32) \cup {133, 160, 5760} \cup (8192..8202)
        \cup {8232, 8233, 8239, 8287, 12288}

\* not s or not s.strip()
is_blank(s) == s = None \/ \A i \in 1..Len(s) : s[i] \in WHITESPACE

\* bool(s) of a str that may be None
truthy(s) == s # << >> /\ s # None

-----------------------------------------------------------------------------
(* The persistence collaborator (specification, section 6).  A raised      *)
(* store error is an input of the operation that makes the call.           *)

Row(event_id, event_data) ==
    [event_id |-> event_id,
     title |-> event_data.title,
     date |-> event_data.date,
     start_day |-> event_data.start_day,
     end_day |-> event_data.end_day,
     start_time |-> event_data.start_time,
     end_time |-> event_data.end_time,
     description |-> event_data.description,
     is_recurring |-> event_data.is_recurring,
     recurrence_pattern |-> event_data.recurrence_pattern,
     is_all_day |-> event_data.is_all_day]

\* insert(event_fields) -> new_id: the row is stored under the next id
repository_insert_event(store, nid, event_data) == store \cup {Row(nid, event_data)}

\* get_by_id(id) -> event_or_absent, as the set of the rows with that id
repository_get_event_by_id(store, event_id) == {e \in store : e.event_id = event_id}

\* update(event_fields_with_id): the row of that id is replaced
repository_update_event(store, event_dict) ==
    {e \in store : e.event_id # event_dict.event_id} \cup {event_dict}

\* delete(id)
repository_delete_event(store, event_id) == {e \in store : e.event_id # event_id}

\* delete_where(title, pattern, anchor_date): the rows an exact match selects
repository_recurring_instances(store, title, recurrence_pattern, date_str) ==
    {e \in store : /\ e.title = title
                   /\ e.recurrence_pattern = recurrence_pattern
                   /\ e.date = date_str}

repository_delete_recurring_instances(store, title, recurrence_pattern, date_str) ==
    store \ repository_recurring_instances(store, title, recurrence_pattern, date_str)

\* a result list: the rows of a set in the order of their ids
rows_by_id(S) ==
    LET ids == {e.event_id : e \in S}
        row(i) == CHOOSE e \in S : e.event_id = i
        RECURSIVE rows_from(_, _)
        rows_from(i, left) ==
            IF left = 0 THEN << >>
            ELSE IF i \in ids THEN <<row(i)>> \o rows_from(i + 1, left - 1)
            ELSE rows_from(i + 1, left)
    IN rows_from(1, Cardinality(ids))

\* query_by_month(year, month): start_day <= last day and end_day >= first day
repository_get_events_for_month(store, year, month) ==
    LET first_day == strftime(Date(year, month, 1))
        last_day == strftime(Date(year, month, monthrange(year, month)))
    IN rows_by_id({e \in store : e.start_day <= last_day /\ e.end_day >= first_day})

\* query_by_day(date): start_day <= date <= end_day
repository_get_events_for_date(store, date_str) ==
    rows_by_id({e \in store : e.start_day <= date_str /\ date_str <= e.end_day})

-----------------------------------------------------------------------------
(* CalendarService: validation and creation.                               *)

MSG_TITLE == "Event title is required and cannot be empty"
MSG_DESCRIPTION == "Description must be 80 characters or less"
MSG_PAST == "Cannot create events for past dates"
MSG_START_TIME == "Start time is required for timed events"
MSG_END_TIME == "End time is required for timed events"
MSG_CREATED == "Event created successfully!"
MSG_RECURRING_CREATED == "Recurring event created with {count} instances!"
MSG_RECURRING_FAILED == "Failed to create recurring events"
MSG_NOT_SAVED == "Failed to save event to database"
MSG_CREATE_ERROR == "Error creating event: {e}"

\* a validation that checks nothing but title = "": the rejection property
\* must tell it from _validate_event_data
_validate_title_only(td, title, date, start_time, end_time, is_all_day, description) ==
    IF title = str("") THEN [ok |-> FALSE, message |-> MSG_TITLE]
    ELSE [ok |-> TRUE, message |-> ""]

_validate_event_data(td, title, date, start_time, end_time, is_all_day, description) ==
    IF is_blank(title) THEN [ok |-> FALSE, message |-> MSG_TITLE]
    ELSE IF truthy(description) /\ Len(description) > 80
        THEN [ok |-> FALSE, message |-> MSG_DESCRIPTION]
    ELSE IF date_lt(date, td) THEN [ok |-> FALSE, message |-> MSG_PAST]
    ELSE IF ~is_all_day /\ is_blank(start_time) THEN [ok |-> FALSE, message |-> MSG_START_TIME]
    ELSE IF ~is_all_day /\ is_blank(end_time) THEN [ok |-> FALSE, message |-> MSG_END_TIME]
    ELSE [ok |-> TRUE, message |-> ""]

\* the default of the parameter num_occurrences
NUM_OCCURRENCES == 26

\* "Calculate next occurrence date": an unknown pattern leaves the date as it
\* is; the value is OverflowError or ValueError when the step leaves the
\* years up to MAXYEAR (the except branches raise again)
next_occurrence(current_date, recurrence_pattern) ==
    IF recurrence_pattern = DAILY THEN add_days(current_date, 1)
    ELSE IF recurrence_pattern = WEEKLY THEN add_days(current_date, 7)
    ELSE IF recurrence_pattern = MONTHLY THEN
        LET month == IF current_date.month = 12 THEN 1 ELSE current_date.month + 1
            year == IF current_date.month = 12 THEN current_date.year + 1 ELSE current_date.year
        IN IF replace_raises(current_date, year, month)
           THEN replace(year, month, monthrange(year, month))
           ELSE replace(year, month, current_date.day)
    ELSE IF recurrence_pattern = YEARLY THEN
        IF replace_raises(current_date, current_date.year + 1, current_date.month)
        THEN replace(current_date.year + 1, current_date.month, 28)
        ELSE replace(current_date.year + 1, current_date.month, current_date.day)
    ELSE current_date

\* the body of "for i in range(num_occurrences)", from iteration i on;
\* st = [events, next_id, event_ids, current_date, raised], fails = the
\* iterations whose insert raises.  The insert is in a try, the step to the
\* next date is not: when it raises, the loop is left (raised) with the rows
\* inserted so far
RECURSIVE recurring_loop(_, _, _, _, _)
recurring_loop(i, num_occurrences, st, fields, fails) ==
    IF i >= num_occurrences THEN st
    ELSE
        LET date_str == strftime(st.current_date)
            event_data == [title |-> fields.title,
                           date |-> date_str,
                           start_day |-> date_str,
                           end_day |-> date_str,
                           start_time |-> fields.start_time,
                           end_time |-> fields.end_time,
                           description |-> fields.description,
                           is_recurring |-> TRUE,
                           recurrence_pattern |-> fields.recurrence_pattern,
                           is_all_day |-> fields.is_all_day]
            inserted ==
                IF i \in fails THEN st
                ELSE [st EXCEPT !.events = repository_insert_event(st.events, st.next_id, event_data),
                                !.next_id = st.next_id + 1,
                                !.event_ids = Append(st.event_ids, st.next_id)]
            next_date == next_occurrence(st.current_date, fields.recurrence_pattern)
        IN IF raises(next_date) THEN [inserted EXCEPT !.raised = TRUE]
           ELSE recurring_loop(i + 1, num_occurrences,
                               [inserted EXCEPT !.current_date = next_date],
                               fields, fails)

\* the passes "for i in range(num_occurrences)" makes from pass i on, the
\* date being current_date: the insert of a pass is called, then the step to
\* the next date is taken, and the loop is left when the step raises
RECURSIVE loop_passes(_, _, _, _)
loop_passes(i, num_occurrences, current_date, recurrence_pattern) ==
    IF i >= num_occurrences THEN {}
    ELSE LET next_date == next_occurrence(current_date, recurrence_pattern)
         IN IF raises(next_date) THEN {i}
            ELSE {i} \cup loop_passes(i + 1, num_occurrences, next_date, recurrence_pattern)

\* the value is the state the loop ends in: the store, the list event_ids
\* that is returned, and whether an exception left the method instead
_create_recurring_events(store, nid, fields, start_date, num_occurrences, fails) ==
    recurring_loop(0, num_occurrences,
                   [events |-> store, next_id |-> nid, event_ids |-> << >>,
                    current_date |-> start_date, raised |-> FALSE],
                   fields, fails)

\* create_event(title, date, ...) on the store (store, nid) with the clock at
\* td; the value is the store afterwards and the returned triple.  An
\* exception that leaves _create_recurring_events is caught by the "except
\* Exception" of create_event: the rows inserted before it stay
create_event(store, nid, td, req, fails) ==
    LET valid == _validate_event_data(td, req.title, req.date, req.start_time,
                                      req.end_time, req.is_all_day, req.description)
        date_str == strftime(req.date)
        end_date == IF req.end_date = NoDate THEN req.date ELSE req.end_date
        end_date_str == strftime(end_date)
        start_time == IF req.is_all_day THEN ALL_DAY ELSE req.start_time
        end_time == IF req.is_all_day THEN ALL_DAY ELSE req.end_time
        fields == [title |-> req.title, start_time |-> start_time, end_time |-> end_time,
                   description |-> req.description, is_all_day |-> req.is_all_day,
                   recurrence_pattern |-> req.recurrence_pattern]
        made == _create_recurring_events(store, nid, fields, req.date, NUM_OCCURRENCES, fails)
        event_data == [title |-> req.title,
                       date |-> date_str,
                       start_day |-> date_str,
                       end_day |-> end_date_str,
                       start_time |-> start_time,
                       end_time |-> end_time,
                       description |-> req.description,
                       is_recurring |-> FALSE,
                       recurrence_pattern |-> None,
                       is_all_day |-> req.is_all_day]
        unchanged == [events |-> store, next_id |-> nid, success |-> FALSE,
                      message |-> "", event_id |-> 0, count |-> 0]
    IN
    IF ~valid.ok THEN [unchanged EXCEPT !.message = valid.message]
    ELSE IF req.is_recurring /\ truthy(req.recurrence_pattern) THEN
        IF made.raised
        THEN [events |-> made.events, next_id |-> made.next_id, success |-> FALSE,
              message |-> MSG_CREATE_ERROR, event_id |-> 0, count |-> 0]
        ELSE IF made.event_ids # << >>
        THEN [events |-> made.events, next_id |-> made.next_id, success |-> TRUE,
              message |-> MSG_RECURRING_CREATED, event_id |-> made.event_ids[1],
              count |-> Len(made.event_ids)]
        ELSE [unchanged EXCEPT !.message = MSG_RECURRING_FAILED]
    ELSE IF 0 \in fails THEN [unchanged EXCEPT !.message = MSG_CREATE_ERROR]
    ELSE IF nid > 0
        THEN [events |-> repository_insert_event(store, nid, event_data), next_id |-> nid + 1,
              success |-> TRUE, message |-> MSG_CREATED, event_id |-> nid, count |-> 1]
        ELSE [unchanged EXCEPT !.message = MSG_NOT_SAVED]

-----------------------------------------------------------------------------
(* CalendarService: deletion and the startup sweep.                        *)

\* the call of the store returned: no exception was raised
NoError == "no error"

MSG_NOT_FOUND == "Event not found"
MSG_DELETED == "Event deleted successfully!"
MSG_DELETED_RECURRING == "Deleted {deleted_count} recurring event instances!"
\* "except ValueError as e": str(e)
MSG_DELETE_VALUE_ERROR == "{e}"
MSG_DELETE_ERROR == "Failed to delete event: {e}"

\* a series deletion that matches the instances by recurrence_pattern
\* alone, whatever their titles and dates: the orphaning of a retitled
\* instance must tell it from delete_event
delete_event_any_title(store, event_id, delete_all_recurring, store_error) ==
    LET found == repository_get_event_by_id(store, event_id)
        event_dict == CHOOSE e \in found : TRUE
        instances == {e \in store : /\ e.is_recurring
                                    /\ e.recurrence_pattern = event_dict.recurrence_pattern}
    IN
    IF store_error = "ValueError"
        THEN [events |-> store, success |-> FALSE, message |-> MSG_DELETE_VALUE_ERROR,
              count |-> 0]
    ELSE IF store_error # NoError
        THEN [events |-> store, success |-> FALSE, message |-> MSG_DELETE_ERROR, count |-> 0]
    ELSE IF found = {}
        THEN [events |-> store, success |-> FALSE, message |-> MSG_NOT_FOUND, count |-> 0]
    ELSE IF event_dict.is_recurring /\ delete_all_recurring
        THEN [events |-> store \ instances, success |-> TRUE,
              message |-> MSG_DELETED_RECURRING, count |-> Cardinality(instances)]
    ELSE [events |-> repository_delete_event(store, event_id), success |-> TRUE,
          message |-> MSG_DELETED, count |-> 1]

\* a deletion that removes the whole series of a recurring event whatever
\* delete_all_recurring says: the single-deletion property must tell it from
\* delete_event
delete_event_always_series(store, event_id, delete_all_recurring, store_error) ==
    LET found == repository_get_event_by_id(store, event_id)
        event_dict == CHOOSE e \in found : TRUE
        instances == repository_recurring_instances(
                         store, event_dict.title, event_dict.recurrence_pattern, event_dict.date)
    IN
    IF store_error = "ValueError"
        THEN [events |-> store, success |-> FALSE, message |-> MSG_DELETE_VALUE_ERROR,
              count |-> 0]
    ELSE IF store_error # NoError
        THEN [events |-> store, success |-> FALSE, message |-> MSG_DELETE_ERROR, count |-> 0]
    ELSE IF found = {}
        THEN [events |-> store, success |-> FALSE, message |-> MSG_NOT_FOUND, count |-> 0]
    ELSE IF event_dict.is_recurring
        THEN [events |-> store \ instances, success |-> TRUE, message |-> MSG_DELETED,
              count |-> 1]
    ELSE [events |-> repository_delete_event(store, event_id), success |-> TRUE,
          message |-> MSG_DELETED, count |-> 1]

\* delete_event(event_id, delete_all_recurring); store_error: the exception
\* that a call of the store raises ("ValueError", or "Exception" for any
\* other one), or NoError
delete_event(store, event_id, delete_all_recurring, store_error) ==
    LET found == repository_get_event_by_id(store, event_id)
        event_dict == CHOOSE e \in found : TRUE
        instances == repository_recurring_instances(
                         store, event_dict.title, event_dict.recurrence_pattern, event_dict.date)
    IN
    IF store_error = "ValueError"
        THEN [events |-> store, success |-> FALSE, message |-> MSG_DELETE_VALUE_ERROR,
              count |-> 0]
    ELSE IF store_error # NoError
        THEN [events |-> store, success |-> FALSE, message |-> MSG_DELETE_ERROR, count |-> 0]
    ELSE IF found = {}
        THEN [events |-> store, success |-> FALSE, message |-> MSG_NOT_FOUND, count |-> 0]
    ELSE IF event_dict.is_recurring /\ delete_all_recurring
        THEN [events |-> repository_delete_recurring_instances(
                             store, event_dict.title, event_dict.recurrence_pattern,
                             event_dict.date),
              success |-> TRUE, message |-> MSG_DELETED_RECURRING,
              count |-> Cardinality(instances)]
    ELSE [events |-> repository_delete_event(store, event_id), success |-> TRUE,
          message |-> MSG_DELETED, count |-> 1]

MSG_UPDATED == "Event updated successfully!"
MSG_UPDATE_ERROR == "Failed to update event: {e}"

\* a date change that moves the start of the event and keeps its end_day:
\* the properties of a date change must tell it from merge_date
merge_date_keep_end_day(event_dict, fields) ==
    IF "date" \in DOMAIN fields
    THEN [event_dict EXCEPT !.date = strftime(fields.date),
                            !.start_day = strftime(fields.date)]
    ELSE event_dict

\* "if date is not None"
merge_date(event_dict, fields) ==
    IF "date" \in DOMAIN fields
    THEN [event_dict EXCEPT !.date = strftime(fields.date),
                            !.start_day = strftime(fields.date),
                            !.end_day = strftime(fields.date)]
    ELSE event_dict

\* "if is_all_day is not None"
merge_is_all_day(event_dict, fields) ==
    IF "is_all_day" \notin DOMAIN fields THEN event_dict
    ELSE IF fields.is_all_day
        THEN [event_dict EXCEPT !.is_all_day = TRUE,
                                !.start_time = ALL_DAY,
                                !.end_time = ALL_DAY]
    ELSE [event_dict EXCEPT !.is_all_day = FALSE]

\* "Update only the fields that were provided": event_dict after the
\* assignments; fields: the parameters that are not None, by name
merge_fields(event_dict, fields) ==
    LET given(name) == name \in DOMAIN fields
        with_title == IF given("title")
                      THEN [event_dict EXCEPT !.title = fields.title] ELSE event_dict
        with_date == merge_date(with_title, fields)
        with_start_time == IF given("start_time")
                           THEN [with_date EXCEPT !.start_time = fields.start_time]
                           ELSE with_date
        with_end_time == IF given("end_time")
                         THEN [with_start_time EXCEPT !.end_time = fields.end_time]
                         ELSE with_start_time
        with_description == IF given("description")
                            THEN [with_end_time EXCEPT !.description = fields.description]
                            ELSE with_end_time
        with_is_all_day == merge_is_all_day(with_description, fields)
        with_is_recurring == IF given("is_recurring")
                             THEN [with_is_all_day EXCEPT !.is_recurring = fields.is_recurring]
                             ELSE with_is_all_day
    IN IF given("recurrence_pattern")
       THEN [with_is_recurring EXCEPT !.recurrence_pattern = fields.recurrence_pattern]
       ELSE with_is_recurring

\* update_event(event_id, ...) with the clock at td; fields: the parameters
\* that are not None, by name; store_error: the call of the store that raises
\* ("get_event_by_id", outside the try, or "update_event", inside it), or
\* NoError.  The strptime of the merged date is outside the try as well: its
\* ValueError leaves update_event (raised)
update_event(store, td, event_id, fields, store_error) ==
    LET found == repository_get_event_by_id(store, event_id)
        event_dict == CHOOSE e \in found : TRUE
        updated == merge_fields(event_dict, fields)
        date_obj == strptime(updated.date, DATABASE_DATE_FORMAT)
        valid == _validate_event_data(td, updated.title, date_obj, updated.start_time,
                                      updated.end_time, updated.is_all_day,
                                      updated.description)
    IN
    IF store_error = "get_event_by_id"
        THEN [events |-> store, success |-> FALSE, message |-> "", raised |-> TRUE]
    ELSE IF found = {}
        THEN [events |-> store, success |-> FALSE, message |-> MSG_NOT_FOUND, raised |-> FALSE]
    ELSE IF raises(date_obj)
        THEN [events |-> store, success |-> FALSE, message |-> "", raised |-> TRUE]
    ELSE IF ~valid.ok
        THEN [events |-> store, success |-> FALSE, message |-> valid.message, raised |-> FALSE]
    ELSE IF store_error = "update_event"
        THEN [events |-> store, success |-> FALSE, message |-> MSG_UPDATE_ERROR,
              raised |-> FALSE]
    ELSE [events |-> repository_update_event(store, updated), success |-> TRUE,
          message |-> MSG_UPDATED, raised |-> FALSE]

\* "Adjust for year boundaries": the two while loops
RECURSIVE adjust_year_boundaries(_, _)
adjust_year_boundaries(target_year, target_month) ==
    IF target_month <= 0 THEN adjust_year_boundaries(target_year - 1, target_month + 12)
    ELSE IF target_month > 12 THEN adjust_year_boundaries(target_year + 1, target_month - 12)
    ELSE [year |-> target_year, month |-> target_month]

\* a sweep that also deletes the events that end today: the sweep property
\* must tell it from sweep_event_dicts
RECURSIVE sweep_event_dicts_inclusive(_, _, _, _)
sweep_event_dicts_inclusive(event_dicts, today_str, st, failing_call) ==
    IF event_dicts = << >> \/ st.raised THEN st
    ELSE
        LET event_dict == Head(event_dicts)
        IN
        IF event_dict.end_day <= today_str
        THEN IF st.calls + 1 = failing_call
             THEN [st EXCEPT !.calls = st.calls + 1, !.raised = TRUE]
             ELSE sweep_event_dicts_inclusive(
                      Tail(event_dicts), today_str,
                      [st EXCEPT !.events = repository_delete_event(st.events, event_dict.event_id),
                                 !.deleted_count = st.deleted_count + 1,
                                 !.calls = st.calls + 1],
                      failing_call)
        ELSE sweep_event_dicts_inclusive(Tail(event_dicts), today_str, st, failing_call)

\* a sweep that tests start_day instead of end_day: the live-event property
\* must tell it from sweep_event_dicts
RECURSIVE sweep_event_dicts_by_start(_, _, _, _)
sweep_event_dicts_by_start(event_dicts, today_str, st, failing_call) ==
    IF event_dicts = << >> \/ st.raised THEN st
    ELSE
        LET event_dict == Head(event_dicts)
        IN
        IF event_dict.start_day < today_str
        THEN IF st.calls + 1 = failing_call
             THEN [st EXCEPT !.calls = st.calls + 1, !.raised = TRUE]
             ELSE sweep_event_dicts_by_start(
                      Tail(event_dicts), today_str,
                      [st EXCEPT !.events = repository_delete_event(st.events, event_dict.event_id),
                                 !.deleted_count = st.deleted_count + 1,
                                 !.calls = st.calls + 1],
                      failing_call)
        ELSE sweep_event_dicts_by_start(Tail(event_dicts), today_str, st, failing_call)

\* a sweep that deletes at most one event of each month's list: the
\* idempotence property must tell it from sweep_event_dicts
sweep_event_dicts_one_each(event_dicts, today_str, st, failing_call) ==
    LET past == SelectSeq(event_dicts, LAMBDA event_dict : event_dict.end_day < today_str)
    IN IF past = << >> \/ st.raised THEN st
       ELSE IF st.calls + 1 = failing_call
            THEN [st EXCEPT !.calls = st.calls + 1, !.raised = TRUE]
            ELSE [st EXCEPT !.events = repository_delete_event(st.events, past[1].event_id),
                            !.deleted_count = st.deleted_count + 1,
                            !.calls = st.calls + 1]

\* "for event_dict in event_dicts" of delete_past_events;
\* st = [events, deleted_count, calls, raised], failing_call = the number of the
\* repository.delete_event call that raises (0: none does)
RECURSIVE sweep_event_dicts(_, _, _, _)
sweep_event_dicts(event_dicts, today_str, st, failing_call) ==
    IF event_dicts = << >> \/ st.raised THEN st
    ELSE
        LET event_dict == Head(event_dicts)
            end_day_str == event_dict.end_day
            event_id == event_dict.event_id
        IN
        IF end_day_str # 0 /\ end_day_str < today_str /\ event_id # 0
        THEN IF st.calls + 1 = failing_call
             THEN [st EXCEPT !.calls = st.calls + 1, !.raised = TRUE]
             ELSE sweep_event_dicts(
                      Tail(event_dicts), today_str,
                      [st EXCEPT !.events = repository_delete_event(st.events, event_id),
                                 !.deleted_count = st.deleted_count + 1,
                                 !.calls = st.calls + 1],
                      failing_call)
        ELSE sweep_event_dicts(Tail(event_dicts), today_str, st, failing_call)

\* "for month_offset in range(-12, 0)", from month_offset on
RECURSIVE sweep_past_months(_, _, _, _)
sweep_past_months(month_offset, td, st, failing_call) ==
    IF month_offset >= 0 \/ st.raised THEN st
    ELSE
        LET target == adjust_year_boundaries(td.year, td.month + month_offset)
            event_dicts == repository_get_events_for_month(st.events, target.year, target.month)
        IN sweep_past_months(month_offset + 1, td,
                             sweep_event_dicts(event_dicts, strftime(td), st, failing_call),
                             failing_call)

\* a sweep that looks back 24 months: the look-back bound must tell it from
\* delete_past_events
delete_past_events_two_years(store, td, failing_call) ==
    LET past == sweep_past_months(
                    -24, td,
                    [events |-> store, deleted_count |-> 0, calls |-> 0, raised |-> FALSE],
                    failing_call)
    IN IF past.raised THEN past
       ELSE sweep_event_dicts(repository_get_events_for_month(past.events, td.year, td.month),
                              strftime(td), past, failing_call)

delete_past_events(store, td, failing_call) ==
    LET past == sweep_past_months(
                    -12, td,
                    [events |-> store, deleted_count |-> 0, calls |-> 0, raised |-> FALSE],
                    failing_call)
    IN IF past.raised THEN past
       ELSE sweep_event_dicts(repository_get_events_for_month(past.events, td.year, td.month),
                              strftime(td), past, failing_call)

-----------------------------------------------------------------------------
(* The view services: range queries.                                       *)

\* Event.from_dict: an Event with the attributes of the row
_dict_to_event(event_dict) ==
    [event_id |-> event_dict.event_id,
     title |-> event_dict.title,
     date |-> event_dict.date,
     start_day |-> event_dict.start_day,
     end_day |-> event_dict.end_day,
     start_time |-> event_dict.start_time,
     end_time |-> event_dict.end_time,
     description |-> event_dict.description,
     is_recurring |-> event_dict.is_recurring,
     recurrence_pattern |-> event_dict.recurrence_pattern,
     is_all_day |-> event_dict.is_all_day]

\* [f(x) for x in xs]
dicts_to_events(event_dicts) ==
    [i \in 1..Len(event_dicts) |-> _dict_to_event(event_dicts[i])]

\* a month query that selects by the month of the date field alone: the
\* overlap property must tell it from MonthViewService_get_events_for_month
MonthViewService_get_events_by_date_month(store, year, month) ==
    dicts_to_events(rows_by_id({e \in store :
        /\ strptime(e.date, DATABASE_DATE_FORMAT).year = year
        /\ strptime(e.date, DATABASE_DATE_FORMAT).month = month}))

MonthViewService_get_events_for_month(store, year, month) ==
    dicts_to_events(repository_get_events_for_month(store, year, month))

AgendaViewService_get_events_for_month(store, year, month) ==
    dicts_to_events(repository_get_events_for_month(store, year, month))

MonthViewService_get_events_for_date(store, date) ==
    dicts_to_events(repository_get_events_for_date(store, strftime(date)))

DayViewService_get_events_for_date(store, date) ==
    dicts_to_events(repository_get_events_for_date(store, strftime(date)))

has_events_on_date(store, date) ==
    Len(MonthViewService_get_events_for_date(store, date)) > 0

\* str.__lt__: the first differing character decides, a proper prefix is less
RECURSIVE str_lt_from(_, _, _)
str_lt_from(a, b, i) ==
    IF i > Len(b) THEN FALSE
    ELSE IF i > Len(a) THEN TRUE
    ELSE IF a[i] = b[i] THEN str_lt_from(a, b, i + 1)
    ELSE a[i] < b[i]

str_lt(a, b) == str_lt_from(a, b, 1)

\* a key of the date alone: the order property must tell it from sort_key_le
sort_key_date_only(x, y) == x.date <= y.date

\* (x.date, x.start_time) <= (y.date, y.start_time)
sort_key_le(x, y) ==
    \/ x.date < y.date
    \/ x.date = y.date /\ ~str_lt(y.start_time, x.start_time)

\* list.sort(key=...), which is stable: x goes behind the last element that
\* is not greater than it
RECURSIVE insert_sorted(_, _)
insert_sorted(sorted, x) ==
    IF sorted = << >> THEN <<x>>
    ELSE IF sort_key_le(sorted[Len(sorted)], x) THEN Append(sorted, x)
    ELSE Append(insert_sorted(SubSeq(sorted, 1, Len(sorted) - 1), x), sorted[Len(sorted)])

RECURSIVE sort_events_from(_, _, _)
sort_events_from(all_events, i, sorted) ==
    IF i > Len(all_events) THEN sorted
    ELSE sort_events_from(all_events, i + 1, insert_sorted(sorted, all_events[i]))

sort_events(all_events) == sort_events_from(all_events, 1, << >>)

\* "for month_offset in range(-months_before, months_after + 1)", from
\* month_offset on: the concatenation of the month queries
RECURSIVE window_events(_, _, _, _)
window_events(store, td, month_offset, months_after) ==
    IF month_offset > months_after THEN << >>
    ELSE
        LET target == adjust_year_boundaries(td.year, td.month + month_offset)
        IN AgendaViewService_get_events_for_month(store, target.year, target.month)
               \o window_events(store, td, month_offset + 1, months_after)

AgendaViewService_get_all_events(store, td, months_before, months_after) ==
    sort_events(window_events(store, td, -months_before, months_after))

RECURSIVE month_view_window_events(_, _, _, _)
month_view_window_events(store, td, month_offset, months_after) ==
    IF month_offset > months_after THEN << >>
    ELSE
        LET target == adjust_year_boundaries(td.year, td.month + month_offset)
        IN MonthViewService_get_events_for_month(store, target.year, target.month)
               \o month_view_window_events(store, td, month_offset + 1, months_after)

get_events_for_all_months(store, td, months_before, months_after) ==
    sort_events(month_view_window_events(store, td, -months_before, months_after))

-----------------------------------------------------------------------------
(* FilterService.  filter_criteria is a dict: a function from the keys it  *)
(* holds to their values; a key that is absent is not in its domain.       *)

\* the letters up to U+00FF that str.lower() changes: A to Z, and the
\* capitals U+00C0 to U+00DE but the sign U+00D7
UPPERCASE == (65..90) \cup (192..214) \cup (216..222)

\* the characters a str of the model is made of: those up to U+00FF and
\* the white space
CHARACTERS == (0..255) \cup WHITESPACE

\* str.lower() of one character of CHARACTERS
lower_char(c) ==
    CASE c \in UPPERCASE -> c + 32
      [] c \in CHARACTERS \ UPPERCASE -> c

\* str.lower()
lower(s) == [i \in 1..Len(s) |-> lower_char(s[i])]

\* sub in s
contains(s, sub) ==
    \E i \in 1..(Len(s) - Len(sub) + 1) : SubSeq(s, i, i + Len(sub) - 1) = sub

\* dict.get(key, default)
get(filter_criteria, key, default) ==
    IF key \in DOMAIN filter_criteria THEN filter_criteria[key] ELSE default

\* event.title.lower() or event.description.lower() raises AttributeError:
\* the attribute is None
_matches_text_filter_raises(event, search_text) ==
    /\ search_text # str("")
    /\ event.title = None \/ event.description = None

\* the value is AttributeError when the method raises
_matches_text_filter(event, search_text) ==
    IF search_text = str("") THEN TRUE
    ELSE IF event.title = None THEN AttributeError
    ELSE IF event.description = None THEN AttributeError
    ELSE LET title_match == contains(lower(event.title), search_text)
             desc_match == contains(lower(event.description), search_text)
         IN title_match \/ desc_match

\* database_date_format: self.DATABASE_DATE_FORMAT of the FilterService
_matches_date_filter(event, from_date, to_date, database_date_format) ==
    IF from_date = NoDate \/ to_date = NoDate THEN TRUE
    ELSE IF strptime_raises(event.date, database_date_format) THEN FALSE
    ELSE LET event_date == strptime(event.date, database_date_format)
         IN ~date_lt(event_date, from_date) /\ ~date_lt(to_date, event_date)

\* a type check that lets the recurring all-day events through: the type
\* property must tell it from _matches_type_filter
_matches_type_filter_lenient(event, show_all_day, show_timed, show_recurring) ==
    IF event.is_all_day THEN show_all_day
    ELSE show_timed /\ (event.is_recurring => show_recurring)

_matches_type_filter(event, show_all_day, show_timed, show_recurring) ==
    IF event.is_all_day /\ ~show_all_day THEN FALSE
    ELSE IF ~event.is_all_day /\ ~show_timed THEN FALSE
    ELSE IF event.is_recurring /\ ~show_recurring THEN FALSE
    ELSE TRUE

\* "for event in events" of filter_events, from the i-th event on; the
\* value is AttributeError when the text check of an event raises: nothing
\* catches it, and it leaves filter_events
RECURSIVE filter_loop(_, _, _, _, _)
filter_loop(all_events, i, filter_criteria, filtered, database_date_format) ==
    IF i > Len(all_events) THEN filtered
    ELSE
        LET event == all_events[i]
            search_text == lower(get(filter_criteria, "search_text", str("")))
            from_date == get(filter_criteria, "from_date", NoDate)
            to_date == get(filter_criteria, "to_date", NoDate)
            show_all_day == get(filter_criteria, "show_all_day", TRUE)
            show_timed == get(filter_criteria, "show_timed", TRUE)
            show_recurring == get(filter_criteria, "show_recurring", TRUE)
        IN
        IF _matches_text_filter_raises(event, search_text) THEN AttributeError
        ELSE IF ~_matches_text_filter(event, search_text)
            THEN filter_loop(all_events, i + 1, filter_criteria, filtered,
                             database_date_format)
        ELSE IF ~_matches_date_filter(event, from_date, to_date, database_date_format)
            THEN filter_loop(all_events, i + 1, filter_criteria, filtered,
                             database_date_format)
        ELSE IF ~_matches_type_filter(event, show_all_day, show_timed, show_recurring)
            THEN filter_loop(all_events, i + 1, filter_criteria, filtered,
                             database_date_format)
        ELSE filter_loop(all_events, i + 1, filter_criteria, Append(filtered, event),
                         database_date_format)

\* FilterService.filter_events raises AttributeError: search_text is None
\* (line 42), or the text check of one of the events raises
FilterService_filter_events_raises(all_events, filter_criteria) ==
    /\ DOMAIN filter_criteria # {}
    /\ \/ get(filter_criteria, "search_text", str("")) = None
       \/ \E i \in DOMAIN all_events :
              _matches_text_filter_raises(
                  all_events[i], lower(get(filter_criteria, "search_text", str(""))))

\* FilterService.filter_events of a FilterService(database_date_format); the
\* value is AttributeError when the method raises
FilterService_filter_events(all_events, filter_criteria, database_date_format) ==
    IF DOMAIN filter_criteria = {} THEN all_events
    ELSE IF get(filter_criteria, "search_text", str("")) = None THEN AttributeError
    ELSE filter_loop(all_events, 1, filter_criteria, << >>, database_date_format)

\* CalendarService.filter_events: it delegates to the FilterService that the
\* constructor made with the format of the database
filter_events(all_events, filter_criteria) ==
    FilterService_filter_events(all_events, filter_criteria, DATABASE_DATE_FORMAT)

filter_events_raises(all_events, filter_criteria) ==
    FilterService_filter_events_raises(all_events, filter_criteria)

ERR_DATE == "'From' date must be before or equal to 'To' date"
ERR_TYPE == "At least one event type must be selected"

\* a validation that asks for one of all-day and timed: the validation
\* property must tell it from validate_filter_criteria
validate_needs_day_or_timed(filter_criteria) ==
    IF get(filter_criteria, "show_all_day", TRUE) \/ get(filter_criteria, "show_timed", TRUE)
    THEN << >> ELSE <<ERR_TYPE>>

validate_filter_criteria(filter_criteria) ==
    IF DOMAIN filter_criteria = {} THEN << >>
    ELSE
        LET from_date == get(filter_criteria, "from_date", NoDate)
            to_date == get(filter_criteria, "to_date", NoDate)
            show_all_day == get(filter_criteria, "show_all_day", TRUE)
            show_timed == get(filter_criteria, "show_timed", TRUE)
            show_recurring == get(filter_criteria, "show_recurring", TRUE)
            date_errors == IF from_date # NoDate /\ to_date # NoDate /\ date_lt(to_date, from_date)
                           THEN <<ERR_DATE>> ELSE << >>
            type_errors == IF ~(show_all_day \/ show_timed \/ show_recurring)
                           THEN <<ERR_TYPE>> ELSE << >>
        IN date_errors \o type_errors

-----------------------------------------------------------------------------
(* The inputs of the operations.                                           *)

\* the texts of the requests
EMPTY == str("")
STANDUP_NOTES == str("Standup notes")
STANDUP == str("Standup")
REVIEW == str("Review")
PLANNING == str("Planning")
RETRO == str("Retro")
NOTES == str("Notes")
AM_09_00 == str("09:00 AM")
AM_10_00 == str("10:00 AM")
PM_01_00 == str("01:00 PM")
PM_02_00 == str("02:00 PM")
AM_11_00 == str("11:00 AM")
AM_11_30 == str("11:30 AM")
HOURLY == str("hourly")

\* "\u3000\t": whitespace that no string literal of the model can hold
IDEOGRAPHIC_SPACE_TAB == <<12288, 9>>

\* descriptions of 80 and of 81 characters
D80 == str("This description has a length of exactly eighty characters, the longest allowed.")
D81 == str("This description has a length of exactly eighty-one characters, one too many now.")

ALL_FAIL == 0..(NUM_OCCURRENCES - 1)

\* the inserts of one create that raise: none, a single one, or all of them
FaultPlans == {{}} \cup {{i} : i \in 0..MaxFaultIndex} \cup {ALL_FAIL}

\* what a call of the store does in delete_event: it returns (NoError), or it
\* raises a ValueError or an exception of another class
StoreErrors == {NoError, "ValueError", "Exception"}

\* the days the clock is read on
ClockDates == {Date(2025, 1, 31), Date(2025, 3, 30), Date(2026, 4, 15)}

Request(title, date, start_time, end_time, description, is_all_day, is_recurring, recurrence_pattern, end_date) ==
    [title |-> title, date |-> date, start_time |-> start_time, end_time |-> end_time,
     description |-> description, is_all_day |-> is_all_day, is_recurring |-> is_recurring,
     recurrence_pattern |-> recurrence_pattern, end_date |-> end_date]

\* the create requests of the main specification, all dated on the clock's
\* day: single-day, multi-day (sixty days long, or ending the day before it
\* starts) and weekly ones, timed and all-day, and two that validation rejects
CreateRequests(td) ==
    {Request(STANDUP, td, AM_09_00, AM_10_00, EMPTY, FALSE, shape[1], shape[2],
             IF shape[3] = 0 THEN NoDate ELSE add_days(td, shape[3])) :
        shape \in {<<FALSE, EMPTY, 0>>, <<FALSE, EMPTY, 60>>, <<FALSE, EMPTY, -1>>,
                   <<TRUE, WEEKLY, 0>>}}
    \cup {Request(REVIEW, td, EMPTY, EMPTY, EMPTY, TRUE, shape[1], shape[2], NoDate) :
        shape \in {<<FALSE, EMPTY>>, <<TRUE, WEEKLY>>}}
    \cup {Request(EMPTY, td, AM_09_00, AM_10_00, EMPTY, FALSE, FALSE, EMPTY, NoDate),
          Request(STANDUP, add_days(td, -1), AM_09_00, AM_10_00, EMPTY, FALSE, TRUE,
                  WEEKLY, NoDate)}

\* the create requests of the validation specification: every combination of
\* valid and invalid fields, single-day and multi-day
AllRequests(td) ==
    {Request(title, date, start_time, end_time, description, is_all_day, shape[1], shape[2],
             end_date) :
        title \in {STANDUP, EMPTY, str("   "), IDEOGRAPHIC_SPACE_TAB},
        end_date \in {NoDate, add_days(td, 60), add_days(td, -1)},
        date \in {add_days(td, -1), td, add_days(td, 1)},
        start_time \in {AM_09_00, EMPTY, str(" ")},
        end_time \in {AM_10_00, EMPTY},
        description \in {EMPTY, D80, D81},
        is_all_day \in BOOLEAN,
        shape \in {<<FALSE, EMPTY>>, <<TRUE, EMPTY>>, <<TRUE, WEEKLY>>}}

-----------------------------------------------------------------------------
(* The state machine.                                                      *)

Res(op, args, success, message, event_id, count, raised) ==
    [op |-> op, args |-> args, success |-> success, message |-> message,
     event_id |-> event_id, count |-> count, raised |-> raised]

\* the state after CalendarService(database) on a new database: the sweep of
\* the constructor found nothing
Init ==
    /\ today = Date(2025, 1, 31)
    /\ events = {}
    /\ next_id = 1
    /\ result = Res("sweep", [failing_call |-> 0, again |-> FALSE], TRUE, "", 0, 0, FALSE)
    /\ prev = {}
    /\ hist = [blocks |-> << >>, deletes |-> 0, faulty |-> 0, updates |-> 0]

\* the insert calls of create_event(req) that raised under the plan fails:
\* those of the plan that were made.  A series makes the insert of every
\* pass of its loop, a single event makes one insert, a request that fails
\* validation makes none
raised_inserts(td, req, fails) ==
    IF ~_validate_event_data(td, req.title, req.date, req.start_time, req.end_time,
                             req.is_all_day, req.description).ok THEN {}
    ELSE IF req.is_recurring /\ truthy(req.recurrence_pattern)
        THEN fails \cap loop_passes(0, NUM_OCCURRENCES, req.date, req.recurrence_pattern)
    ELSE fails \cap {0}

\* store errors are injected into at most MaxFaultyOps operations
MayFail(faulty) == ~faulty \/ hist.faulty < MaxFaultyOps

\* CalendarService.create_event
CreateCall(req, fails) ==
    /\ MayFail(fails # {})
    /\ \E r \in {create_event(events, next_id, today, req, fails)} :
       /\ events' = r.events
       /\ next_id' = r.next_id
       /\ result' = Res("create", [req |-> req, raised_at |-> raised_inserts(today, req, fails)],
                        r.success, r.message, r.event_id, r.count, FALSE)
       /\ prev' = events
       /\ hist' = [hist EXCEPT
                      !.blocks = IF r.next_id > next_id
                                 THEN Append(hist.blocks,
                                             [first |-> next_id, n |-> r.next_id - next_id])
                                 ELSE hist.blocks,
                      !.faulty = IF fails # {} THEN hist.faulty + 1 ELSE hist.faulty]
       /\ UNCHANGED today

\* at most MaxCreates calls of create_event that persist something
Create(req, fails) ==
    /\ Len(hist.blocks) < MaxCreates
    /\ CreateCall(req, fails)

\* the ids the delete requests name: the first ids of every create, and one
\* the store never assigned
ProbeIds ==
    {hist.blocks[b].first + k : b \in DOMAIN hist.blocks, k \in 0..(ProbesPerBlock - 1)}
        \cup {next_id}

\* CalendarService.delete_event
Delete(event_id, delete_all_recurring, store_error) ==
    /\ hist.deletes < MaxDeletes
    /\ MayFail(store_error # NoError)
    /\ \E r \in {delete_event(events, event_id, delete_all_recurring, store_error)} :
       /\ events' = r.events
       /\ result' = Res("delete",
                        [event_id |-> event_id, delete_all_recurring |-> delete_all_recurring,
                         store_error |-> store_error],
                        r.success, r.message, 0, r.count, FALSE)
       /\ prev' = events
       /\ hist' = [hist EXCEPT !.deletes = hist.deletes + 1,
                               !.faulty = IF store_error # NoError
                                          THEN hist.faulty + 1 ELSE hist.faulty]
       /\ UNCHANGED <<today, next_id>>

\* CalendarService.__init__ on the existing database: delete_past_events;
\* again: the operation before it was a sweep too, one that completed
Startup(failing_call) ==
    /\ MayFail(failing_call # 0)
    /\ \E r \in {delete_past_events(events, today, failing_call)} :
       /\ events' = r.events
       /\ result' = Res("sweep",
                        [failing_call |-> IF r.raised THEN failing_call ELSE 0,
                         again |-> result.op = "sweep" /\ ~result.raised],
                        ~r.raised, "", 0, r.deleted_count, r.raised)
       /\ prev' = events
       /\ hist' = [hist EXCEPT !.faulty = IF r.raised THEN hist.faulty + 1 ELSE hist.faulty]
       /\ UNCHANGED <<today, next_id>>

\* the clock moves on
AdvanceClock(date) ==
    /\ date_lt(today, date)
    /\ today' = date
    /\ result' = Res("clock", [date |-> date], TRUE, "", 0, 0, FALSE)
    /\ prev' = events
    /\ UNCHANGED <<events, next_id, hist>>

Next ==
    \/ \E req \in CreateRequests(today), fails \in FaultPlans : Create(req, fails)
    \/ \E event_id \in ProbeIds, delete_all_recurring \in BOOLEAN,
          store_error \in StoreErrors :
           Delete(event_id, delete_all_recurring, store_error)
    \/ \E failing_call \in 0..(MaxFaultIndex + 1) : Startup(failing_call)
    \/ \E date \in ClockDates : AdvanceClock(date)

Spec == Init /\ [][Next]_vars

-----------------------------------------------------------------------------
(* The recurrence arithmetic from every start date: one recurring create   *)
(* on a new database, dated on the clock's day or on one of the last days  *)
(* a date can hold, with and without inserts that raise.                   *)

GenDates ==
    {dt \in {Date(y, m, d) : y \in 2024..(2024 + GenYears - 1), m \in 1..12, d \in 1..31} :
        dt.day <= monthrange(dt.year, dt.month)}

InitRecurrence ==
    /\ today \in GenDates
    /\ events = {}
    /\ next_id = 1
    /\ result = Res("sweep", [failing_call |-> 0, again |-> FALSE], TRUE, "", 0, 0, FALSE)
    /\ prev = {}
    /\ hist = [blocks |-> << >>, deletes |-> 0, faulty |-> 0, updates |-> 0]

\* start dates at the end of the range of datetime.date: 26 daily occurrences
\* from 9999-12-06 end on date.max, the second weekly one from 9999-12-25
\* would lie after it
LastDates == {Date(MAXYEAR, 12, 6), Date(MAXYEAR, 12, 25)}

CreateSeries(date, recurrence_pattern, fails) ==
    /\ result.op = "sweep"
    /\ Create(Request(STANDUP, date, AM_09_00, AM_10_00, EMPTY, FALSE, TRUE,
                      recurrence_pattern, NoDate), fails)

NextRecurrence ==
    \E date \in {today} \cup LastDates,
       recurrence_pattern \in {DAILY, WEEKLY, MONTHLY, YEARLY, HOURLY},
       fails \in FaultPlans :
        CreateSeries(date, recurrence_pattern, fails)

SpecRecurrence == InitRecurrence /\ [][NextRecurrence]_vars

-----------------------------------------------------------------------------
(* Validation: one create request of any shape, on a database that holds   *)
(* nothing, a single event or a weekly series.                             *)

SeedRequests ==
    {Request(STANDUP, Date(2025, 1, 31), AM_09_00, AM_10_00, EMPTY, FALSE, shape[1],
             shape[2], NoDate) : shape \in {<<FALSE, EMPTY>>, <<TRUE, WEEKLY>>}}

\* the databases the service is constructed on
SeedStores ==
    {[events |-> {}, next_id |-> 1]}
        \cup {[events |-> create_event({}, 1, Date(2025, 1, 31), req, {}).events,
               next_id |-> create_event({}, 1, Date(2025, 1, 31), req, {}).next_id] :
                 req \in SeedRequests}

InitValidation ==
    /\ today = Date(2025, 1, 31)
    /\ \E seed \in SeedStores :
        /\ events = seed.events
        /\ next_id = seed.next_id
        /\ prev = seed.events
        /\ hist = [blocks |-> IF seed.next_id > 1
                              THEN <<[first |-> 1, n |-> seed.next_id - 1]>> ELSE << >>,
                   deletes |-> 0, faulty |-> 0, updates |-> 0]
    /\ result = Res("sweep", [failing_call |-> 0, again |-> FALSE], TRUE, "", 0, 0, FALSE)

CreateAny(req) ==
    /\ result.op = "sweep"
    /\ Create(req, {})

NextValidation == \E req \in AllRequests(today) : CreateAny(req)

SpecValidation == InitValidation /\ [][NextValidation]_vars

-----------------------------------------------------------------------------
(* The startup sweep: the service is constructed again and again, on later *)
(* and later days, on a database that earlier create_event calls filled.   *)

\* the days of the constructions
SweepDates == {Date(2025, 3, 30), Date(2025, 4, 2), Date(2026, 4, 15)}

\* the databases left by no, one or two create_event calls of 2025-01-31
SweepSeeds ==
    LET td == Date(2025, 1, 31)
        empty == [events |-> {}, next_id |-> 1, blocks |-> << >>]
        after(seed, req) ==
            LET r == create_event(seed.events, seed.next_id, td, req, {})
            IN [events |-> r.events,
                next_id |-> r.next_id,
                blocks |-> IF r.next_id > seed.next_id
                           THEN Append(seed.blocks,
                                       [first |-> seed.next_id, n |-> r.next_id - seed.next_id])
                           ELSE seed.blocks]
        one == {after(empty, req) : req \in CreateRequests(td)}
    IN {empty} \cup one \cup {after(seed, req) : seed \in one, req \in CreateRequests(td)}

InitSweep ==
    /\ today = Date(2025, 1, 31)
    /\ \E seed \in SweepSeeds :
        /\ events = seed.events
        /\ next_id = seed.next_id
        /\ prev = seed.events
        /\ hist = [blocks |-> seed.blocks, deletes |-> 0, faulty |-> 0, updates |-> 0]
    /\ result = Res("clock", [date |-> Date(2025, 1, 31)], TRUE, "", 0, 0, FALSE)

NextSweep ==
    \/ \E failing_call \in 0..(MaxFaultIndex + 1) : Startup(failing_call)
    \/ \E date \in SweepDates : AdvanceClock(date)

SpecSweep == InitSweep /\ [][NextSweep]_vars

-----------------------------------------------------------------------------
(* Filtering: create_event calls fill the database, then one               *)
(* filter_events or validate_filter_criteria call is made, on the event    *)
(* list of the months January to March 2025.                               *)

\* the create_event calls that fill the database, in their order
FilterRequests ==
    LET td == Date(2025, 1, 31)
    IN <<Request(STANDUP, td, AM_09_00, AM_10_00, EMPTY, FALSE, TRUE, WEEKLY, NoDate),
         Request(REVIEW, td, EMPTY, EMPTY, STANDUP_NOTES, TRUE, FALSE, EMPTY, NoDate),
         Request(PLANNING, td, PM_01_00, PM_02_00, D80, FALSE, FALSE, EMPTY, add_days(td, 60)),
         Request(REVIEW, add_days(td, 1), EMPTY, EMPTY, EMPTY, TRUE, TRUE, WEEKLY, NoDate),
         Request(RETRO, td, AM_11_00, AM_11_30, None, FALSE, FALSE, EMPTY, NoDate)>>

\* a key of the dict: absent, or present with one of the values
Optional(values) == {<< >>} \cup {<<v>> : v \in values}

\* the dict that holds the keys that are given
Criteria(search_text, from_date, to_date, show_all_day, show_timed, show_recurring) ==
    LET given == [search_text |-> search_text, from_date |-> from_date, to_date |-> to_date,
                  show_all_day |-> show_all_day, show_timed |-> show_timed,
                  show_recurring |-> show_recurring]
        keys == {key \in DOMAIN given : Len(given[key]) = 1}
    IN [key \in keys |-> given[key][1]]

\* from_date and to_date: absent, one of them, a range, a range of one day,
\* a range whose ends are swapped
DateRanges ==
    {<<<< >>, << >>>>,
     <<<<Date(2025, 2, 1)>>, << >>>>,
     <<<<Date(2025, 2, 1)>>, <<Date(2025, 3, 31)>>>>,
     <<<<Date(2025, 1, 31)>>, <<Date(2025, 1, 31)>>>>,
     <<<<Date(2025, 3, 31)>>, <<Date(2025, 2, 1)>>>>}

FilterCriteria ==
    {Criteria(search_text, range[1], range[2], show_all_day, show_timed, show_recurring) :
        search_text \in Optional({EMPTY, str("STAND"), str("notes"), str("xyz")}),
        range \in DateRanges,
        show_all_day \in Optional(BOOLEAN),
        show_timed \in Optional(BOOLEAN),
        show_recurring \in Optional(BOOLEAN)}

InitFilter == Init

\* the next of the create_event calls that fill the database
Fill ==
    /\ result.op \in {"sweep", "create"}
    /\ Len(hist.blocks) < Len(FilterRequests)
    /\ CreateCall(FilterRequests[Len(hist.blocks) + 1], {})

\* CalendarService.filter_events on the events of the months shown; value:
\* the list that is returned, no event when the call raised
Filter(filter_criteria) ==
    /\ result.op \in {"sweep", "create"}
    /\ \E all_events \in {get_events_for_all_months(events, today, 0, 2)} :
           result' = [op |-> "filter",
                      args |-> [events |-> all_events, filter_criteria |-> filter_criteria],
                      value |-> IF filter_events_raises(all_events, filter_criteria)
                                THEN << >>
                                ELSE filter_events(all_events, filter_criteria),
                      raised |-> filter_events_raises(all_events, filter_criteria)]
    /\ UNCHANGED <<today, events, next_id, prev, hist>>

\* FilterService.validate_filter_criteria
Validate(filter_criteria) ==
    /\ result.op \in {"sweep", "create"}
    /\ result' = [op |-> "validate",
                  args |-> [filter_criteria |-> filter_criteria],
                  value |-> validate_filter_criteria(filter_criteria)]
    /\ UNCHANGED <<today, events, next_id, prev, hist>>

NextFilter ==
    \/ Fill
    \/ \E filter_criteria \in FilterCriteria : Filter(filter_criteria)
    \/ \E filter_criteria \in FilterCriteria : Validate(filter_criteria)

SpecFilter == InitFilter /\ [][NextFilter]_vars

-----------------------------------------------------------------------------
(* Updates: create_event, update_event and delete_event calls on a new     *)
(* database, and constructions of the service on it, all on one day.       *)

\* the create requests: an all-day and a timed single event, a weekly
\* series, and a multi-day event that ends the day before it starts
UpdateRequests(td) ==
    {Request(REVIEW, td, EMPTY, EMPTY, EMPTY, TRUE, FALSE, EMPTY, NoDate),
     Request(STANDUP, td, AM_09_00, AM_10_00, EMPTY, FALSE, TRUE, WEEKLY, NoDate),
     Request(STANDUP, td, AM_09_00, AM_10_00, EMPTY, FALSE, FALSE, EMPTY, NoDate),
     Request(PLANNING, td, PM_01_00, PM_02_00, EMPTY, FALSE, FALSE, EMPTY, add_days(td, -1))}

\* the parameters of update_event that are not None: none, or one of them
UpdateFields(td) ==
    {[name \in {} |-> None],
     [title |-> RETRO], [title |-> EMPTY],
     [date |-> add_days(td, 1)],
     [start_time |-> AM_11_00], [end_time |-> AM_11_30],
     [is_all_day |-> TRUE], [is_all_day |-> FALSE],
     [is_recurring |-> TRUE], [is_recurring |-> FALSE],
     [recurrence_pattern |-> WEEKLY]}

InitUpdate == Init

\* CalendarService.update_event
Update(event_id, fields, store_error) ==
    /\ hist.updates < MaxUpdates
    /\ MayFail(store_error # NoError)
    /\ \E r \in {update_event(events, today, event_id, fields, store_error)} :
       /\ events' = r.events
       /\ result' = Res("update",
                        [event_id |-> event_id, fields |-> fields,
                         store_error |-> store_error],
                        r.success, r.message, 0, 0, r.raised)
       /\ prev' = events
       /\ hist' = [hist EXCEPT !.updates = hist.updates + 1,
                               !.faulty = IF store_error # NoError
                                          THEN hist.faulty + 1 ELSE hist.faulty]
       /\ UNCHANGED <<today, next_id>>

NextUpdate ==
    \/ \E req \in UpdateRequests(today) : Create(req, {})
    \/ \E event_id \in ProbeIds, fields \in UpdateFields(today),
          store_error \in {NoError, "get_event_by_id", "update_event"} :
           Update(event_id, fields, store_error)
    \/ \E event_id \in ProbeIds, delete_all_recurring \in BOOLEAN :
           Delete(event_id, delete_all_recurring, NoError)
    \/ \E failing_call \in {0} : Startup(failing_call)

SpecUpdate == InitUpdate /\ [][NextUpdate]_vars

-----------------------------------------------------------------------------
(* Deletion: delete_event calls on a database that earlier create_event    *)
(* calls filled.                                                           *)

\* the service was constructed on the new database and then answered the
\* create_event calls of SweepSeeds
InitDelete ==
    /\ today = Date(2025, 1, 31)
    /\ \E seed \in SweepSeeds :
        /\ events = seed.events
        /\ next_id = seed.next_id
        /\ prev = seed.events
        /\ hist = [blocks |-> seed.blocks, deletes |-> 0, faulty |-> 0, updates |-> 0]
    /\ result = Res("clock", [date |-> Date(2025, 1, 31)], TRUE, "", 0, 0, FALSE)

NextDelete ==
    \E event_id \in ProbeIds, delete_all_recurring \in BOOLEAN, store_error \in StoreErrors :
        Delete(event_id, delete_all_recurring, store_error)

SpecDelete == InitDelete /\ [][NextDelete]_vars

-----------------------------------------------------------------------------
(* Editing: one update_event call, and a delete_event call after it, on a  *)
(* database that create_event calls of 2025-01-31 filled, on that day or   *)
(* on a later one.                                                         *)

\* the parameters of update_event that are not None: those of UpdateFields,
\* a date before the year 1000 (strftime writes its year without padding and
\* line 290 cannot parse it back), a description that is too long, and two
\* parameters at once
EditFields(td) ==
    UpdateFields(td)
        \cup {[date |-> Date(999, 12, 31)],
              [description |-> NOTES], [description |-> D81],
              [start_time |-> AM_11_00, is_all_day |-> TRUE],
              [title |-> RETRO, description |-> NOTES]}

InitEdit == InitDelete

\* update_event, the first call made on the service
Edit(event_id, fields) ==
    /\ result.op = "clock"
    /\ Update(event_id, fields, NoError)

\* delete_event after the update
DeleteAfterEdit(event_id, delete_all_recurring) ==
    /\ result.op = "update"
    /\ Delete(event_id, delete_all_recurring, NoError)

\* the service is used on a later day
Later(date) ==
    /\ result.op = "clock"
    /\ AdvanceClock(date)

NextEdit ==
    \/ \E event_id \in ProbeIds, fields \in EditFields(today) : Edit(event_id, fields)
    \/ \E event_id \in ProbeIds, delete_all_recurring \in BOOLEAN :
           DeleteAfterEdit(event_id, delete_all_recurring)
    \/ \E date \in {Date(2025, 3, 30)} : Later(date)

SpecEdit == InitEdit /\ [][NextEdit]_vars

-----------------------------------------------------------------------------
(* Properties.                                                             *)

Range(seq) == {seq[i] : i \in DOMAIN seq}

\* the date a date string of the database stands for
DateOf(date_str) == strptime(date_str, DATABASE_DATE_FORMAT)

EventIds(seq) == {seq[i].event_id : i \in DOMAIN seq}

NoDuplicateIds(seq) ==
    \A i, j \in DOMAIN seq : i # j => seq[i].event_id # seq[j].event_id

\* the number of the month of a date string, counted from year 0
MonthIndex(date_str) == (date_str \div 10000) * 12 + ((date_str \div 100) % 100) - 1

\* the k-th day after dt, one calendar day at a time
RECURSIVE DaysLater(_, _)
DaysLater(dt, k) == IF k = 0 THEN dt ELSE DaysLater(next_day(dt), k - 1)

\* the last operation was a create that passed validation and took the
\* recurring branch
RecurringCreate ==
    /\ result.op = "create"
    /\ result.args.req.is_recurring
    /\ truthy(result.args.req.recurrence_pattern)
    /\ _validate_event_data(today, result.args.req.title, result.args.req.date,
                            result.args.req.start_time, result.args.req.end_time,
                            result.args.req.is_all_day, result.args.req.description).ok

\* the rows the last operation added, and the one with a given id
Added == events \ prev
RowOf(store, event_id) == CHOOSE e \in store : e.event_id = event_id

\* the last operation was a recurring create all of whose inserts succeeded
WholeSeriesCreated ==
    /\ RecurringCreate
    /\ result.args.raised_at = {}
    /\ result.success

\* the date of the k-th instance (k = 0, 1, ...) the last create persisted
InstanceDate(k) == DateOf(RowOf(events, result.event_id + k).date)

(* C1: after one recurring create has persisted N instances, deleting the  *)
(* series through its first instance (delete_all_recurring = true) deletes  *)
(* exactly N rows and leaves no event with that title.                      *)
C1_SeriesDeleteRemovesAll ==
    \A b \in DOMAIN hist.blocks :
        LET first == hist.blocks[b].first
            n == hist.blocks[b].n
            series == {e \in prev : e.event_id \in first..(first + n - 1)}
            head == RowOf(prev, first)
        IN ( /\ result.op = "delete"
             /\ result.args.event_id = first
             /\ result.args.delete_all_recurring
             /\ result.args.store_error = NoError
             /\ n = NUM_OCCURRENCES
             /\ Cardinality(series) = n
             /\ head.is_recurring
             /\ \A e \in prev : e.title = head.title <=> e \in series )
           => /\ result.count = n
              /\ \A e \in events : e.title # head.title

(* C2: every event id occurs at most once in the list for_window returns   *)
(* (get_all_events / get_events_for_all_months), whatever the window.       *)
C2_WindowHasNoDuplicates ==
    \A window \in {<<0, 0>>, <<1, 1>>, <<6, 6>>, <<12, 2>>} :
        /\ NoDuplicateIds(AgendaViewService_get_all_events(events, today, window[1], window[2]))
        /\ NoDuplicateIds(get_events_for_all_months(events, today, window[1], window[2]))

\* the months the month queries are asked for
QueryMonths == {<<y, m>> : y \in {2025, 2026}, m \in 1..12}

(* C3: for_month(year, month) returns exactly the persisted events with    *)
(* start_day <= the month's last day and end_day >= its first day, that    *)
(* is, those that start in the month or before it and end in the month or  *)
(* after it, each once and as persisted.                                    *)
C3_MonthQueryIsOverlap ==
    \A ym \in QueryMonths :
        LET got == MonthViewService_get_events_for_month(events, ym[1], ym[2])
            index == ym[1] * 12 + ym[2] - 1
        IN /\ Range(got) =
                  {e \in events : /\ MonthIndex(e.start_day) <= index
                                  /\ index <= MonthIndex(e.end_day)}
           /\ Len(got) = Cardinality(Range(got))

\* an event whose span crosses a month boundary was created, and the
\* queries of its first and of its last month both return it
C3_Witness ==
    \E e \in Added :
        /\ e.start_day < e.end_day
        /\ MonthIndex(e.start_day) < MonthIndex(e.end_day)
        /\ e \in Range(MonthViewService_get_events_for_month(
                           events, DateOf(e.start_day).year, DateOf(e.start_day).month))
        /\ e \in Range(MonthViewService_get_events_for_month(
                           events, DateOf(e.end_day).year, DateOf(e.end_day).month))

\* the days the day queries are asked for
QueryDays ==
    {add_days(dt, k) : dt \in ClockDates, k \in {-1, 0, 1, 7, 59, 60, 61}}

(* C4: for_day(date) returns exactly the persisted events with             *)
(* start_day <= date <= end_day; an event created on date D is returned    *)
(* for D, a multi-day event for every day of its span; has_events_on_date  *)
(* is false on a date no event covers.                                      *)
C4_DayQueryIsOverlap ==
    /\ \A dt \in QueryDays :
        LET got == DayViewService_get_events_for_date(events, dt)
        IN /\ Range(got) =
                  {e \in events : /\ ~date_lt(dt, DateOf(e.start_day))
                                  /\ ~date_lt(DateOf(e.end_day), dt)}
           /\ Len(got) = Cardinality(Range(got))
           /\ has_events_on_date(events, dt) <=> Range(got) # {}
    /\ (result.op = "create" /\ result.success)
        => \A e \in Added :
              result.args.req.date \in QueryDays /\ DateOf(e.date) = result.args.req.date
              => e \in Range(DayViewService_get_events_for_date(events, result.args.req.date))

\* the start date of the last create request
StartDate == result.args.req.date

Min(a, b) == IF a < b THEN a ELSE b

(* C5: monthly recurrence: the k-th occurrence lies k calendar months      *)
(* after the start month, on day min(day of the start date, days in that   *)
(* month).                                                                  *)
C5_MonthlyClampsToStartDay ==
    (WholeSeriesCreated /\ result.args.req.recurrence_pattern = MONTHLY)
    => \A k \in 0..(result.count - 1) :
           LET dt == InstanceDate(k)
           IN /\ dt.year * 12 + dt.month - 1 = StartDate.year * 12 + StartDate.month - 1 + k
              /\ dt.day = Min(StartDate.day, monthrange(dt.year, dt.month))

(* C6: yearly recurrence: the k-th occurrence is in year start.year + k    *)
(* with the month and day of the start date, a Feb 29 start falling on     *)
(* Feb 28 in the non-leap years only.                                       *)
C6_YearlyKeepsMonthAndDay ==
    (WholeSeriesCreated /\ result.args.req.recurrence_pattern = YEARLY)
    => \A k \in 0..(result.count - 1) :
           LET dt == InstanceDate(k)
           IN /\ dt.year = StartDate.year + k
              /\ dt.month = StartDate.month
              /\ dt.day = IF StartDate.month = 2 /\ StartDate.day = 29 /\ ~is_leap(dt.year)
                          THEN 28 ELSE StartDate.day

\* the dates of the rows the last create added, in the order of their ids
AddedDates ==
    LET ids == {e.event_id : e \in Added}
        first == CHOOSE n \in ids : \A m \in ids : n <= m
    IN [k \in 1..Cardinality(Added) |-> DateOf(RowOf(events, first + k - 1).date)]

(* C7: a recurring create generates exactly 26 occurrence dates, the first  *)
(* being the requested start date; daily ones are one day apart and weekly  *)
(* ones seven days apart, so the dates increase strictly and none repeats.  *)
(* An occurrence date is seen in the store when its insert did not raise:   *)
(* the rows added and the inserts that raised are 26 together, and the rows *)
(* of two occurrences lie as many days, or weeks, apart as the occurrences  *)
(* are, counted one calendar day at a time.                                 *)
C7_DefaultCountAndSpacing ==
    RecurringCreate
    => LET raised_at == result.args.raised_at
           persisted == (0..(NUM_OCCURRENCES - 1)) \ raised_at
           occurrence(k) ==
               CHOOSE n \in persisted : Cardinality({m \in persisted : m < n}) = k - 1
           step == IF result.args.req.recurrence_pattern = DAILY THEN 1 ELSE 7
       IN /\ Cardinality(Added) + Cardinality(raised_at) = NUM_OCCURRENCES
          /\ 0 \in persisted => AddedDates[1] = StartDate
          /\ result.args.req.recurrence_pattern \in {DAILY, WEEKLY}
               => /\ persisted # {}
                       => AddedDates[1] = DaysLater(StartDate, step * occurrence(1))
                  /\ \A k \in 1..(Cardinality(Added) - 1) :
                         /\ AddedDates[k + 1] =
                                DaysLater(AddedDates[k],
                                          step * (occurrence(k + 1) - occurrence(k)))
                         /\ date_lt(AddedDates[k], AddedDates[k + 1])
                  /\ Cardinality({e.date : e \in Added}) = Cardinality(Added)

(* C8: bulk creation is best-effort: when the insert of an occurrence      *)
(* raises, the other occurrence dates are still inserted and nothing is    *)
(* rolled back; create succeeds with the number of instances persisted,    *)
(* and fails with no id iff none was persisted.                             *)
C8_BulkCreateIsBestEffort ==
    RecurringCreate
    => LET raised_at == result.args.raised_at \cap (0..(NUM_OCCURRENCES - 1))
           persisted == NUM_OCCURRENCES - Cardinality(raised_at)
           step == IF result.args.req.recurrence_pattern = DAILY THEN 1 ELSE 7
       IN /\ prev \subseteq events
          /\ Cardinality(Added) = persisted
          /\ result.args.req.recurrence_pattern \in {DAILY, WEEKLY}
               => {e.date : e \in Added} =
                      {strftime(add_days(StartDate, step * k)) :
                           k \in (0..(NUM_OCCURRENCES - 1)) \ raised_at}
          /\ result.success <=> persisted > 0
          /\ result.success => /\ result.count = persisted
                               /\ result.event_id \in {e.event_id : e \in Added}
          /\ ~result.success => result.event_id = 0 /\ events = prev

\* the messages of the problems a create request has on the day td (a time
\* of nothing but spaces is a missing time too)
Problems(req, td) ==
    (IF is_blank(req.title) THEN {MSG_TITLE} ELSE {})
        \cup (IF Len(req.description) > 80 THEN {MSG_DESCRIPTION} ELSE {})
        \cup (IF date_lt(req.date, td) THEN {MSG_PAST} ELSE {})
        \cup (IF ~req.is_all_day /\ is_blank(req.start_time) THEN {MSG_START_TIME} ELSE {})
        \cup (IF ~req.is_all_day /\ is_blank(req.end_time) THEN {MSG_END_TIME} ELSE {})

(* C9: create rejects invalid input without touching the store: with a     *)
(* blank title, a description of more than 80 characters, a date before    *)
(* today, or a timed event without start or end time, it returns false     *)
(* with a message naming one of the problems and no id, and the persisted  *)
(* events are unchanged, for single and recurring requests alike.          *)
C9_InvalidCreateIsRejected ==
    (result.op = "create" /\ Problems(result.args.req, today) # {})
    => /\ ~result.success
       /\ result.message \in Problems(result.args.req, today)
       /\ result.event_id = 0
       /\ events = prev

\* a recurring request whose only problem is its description of 81
\* characters was rejected on a database that holds events
C9_Witness ==
    /\ result.op = "create"
    /\ result.args.req.is_recurring
    /\ result.args.req.recurrence_pattern = WEEKLY
    /\ Problems(result.args.req, today) = {MSG_DESCRIPTION}
    /\ ~result.success
    /\ prev # {}
    /\ events = prev

\* the events a sweep on the day td has to delete: past ones that overlap
\* one of the 13 months up to td's month
Stale(store, td) ==
    {e \in store :
        /\ e.end_day < strftime(td)
        /\ \E back \in 0..12 :
              LET index == td.year * 12 + td.month - 1 - back
              IN /\ MonthIndex(e.start_day) <= index
                 /\ index <= MonthIndex(e.end_day)}

(* C10: sweep(today) deletes every event with end_day < today that         *)
(* overlaps one of the 13 scanned months and nothing else, and the count   *)
(* it returns is the number of events removed, an event that overlaps      *)
(* several scanned months being counted once.                               *)
C10_SweepDeletesStaleOnce ==
    (result.op = "sweep" /\ ~result.raised)
    => /\ events = prev \ Stale(prev, today)
       /\ result.count = Cardinality(prev \ events)

\* a sweep removed an event whose span lies in two scanned months, and
\* kept an event that was not past
C10_Witness ==
    /\ result.op = "sweep"
    /\ ~result.raised
    /\ result.count = Cardinality(prev \ events)
    /\ events # {}
    /\ \E e \in prev \ events :
          \E back \in 1..12 :
              LET index == today.year * 12 + today.month - 1 - back
              IN /\ MonthIndex(e.start_day) <= index
                 /\ index + 1 <= MonthIndex(e.end_day)

(* C11: the sweep never touches a live event: every event with             *)
(* end_day >= today that is in the store before sweep(today) is in the     *)
(* store afterwards with all fields unchanged, multi-day events that       *)
(* started before today included.                                           *)
C11_SweepKeepsLiveEvents ==
    result.op = "sweep"
    => \A e \in prev : e.end_day >= strftime(today) => e \in events

\* a sweep deleted past events and kept a multi-day event that started
\* before today and ends after it
C11_Witness ==
    /\ result.op = "sweep"
    /\ result.count > 0
    /\ \E e \in prev \cap events :
          /\ e.start_day < strftime(today)
          /\ e.end_day > strftime(today)

(* C12: the sweep is idempotent: a sweep(today) that directly follows a    *)
(* completed sweep(today) returns 0 and leaves the store as it found it.   *)
C12_SweepIsIdempotent ==
    (result.op = "sweep" /\ result.args.again /\ ~result.raised)
    => /\ result.count = 0
       /\ events = prev

\* a second sweep in a row ran on a store from which events were swept
\* before and which still holds past events, outside the scanned months
C12_Witness ==
    /\ result.op = "sweep"
    /\ result.args.again
    /\ ~result.raised
    /\ result.count = 0
    /\ Cardinality(events) < next_id - 1
    /\ \E e \in events : e.end_day < strftime(today)

(* C13: a store error while deleting one stale event does not abort the    *)
(* sweep: that event is skipped, every other stale event of the scanned    *)
(* months is deleted, the sweep returns the reduced count, and the         *)
(* construction of the service completes.                                   *)
C13_SweepSurvivesDeleteError ==
    result.op = "sweep"
    => /\ ~result.raised
       /\ Cardinality(Stale(prev, today) \cap events)
              <= (IF result.args.failing_call # 0 THEN 1 ELSE 0)
       /\ result.count = Cardinality(prev \ events)

\* a flag of the criteria of the last filter or validate call, absent
\* flags counting as true
Shown(flag) ==
    IF flag \in DOMAIN result.args.filter_criteria
    THEN result.args.filter_criteria[flag] ELSE TRUE

(* C14: an event passes the type check iff (is_all_day implies             *)
(* show_all_day) and (not is_all_day implies show_timed) and (is_recurring *)
(* implies show_recurring); so with show_timed false every returned event  *)
(* is all-day, with show_all_day false every returned event is timed, and  *)
(* with show_recurring false no returned event is recurring.                *)
C14_TypeFilterExcludes ==
    result.op = "filter"
    => /\ \A event \in Range(result.args.events) :
              _matches_type_filter(event, Shown("show_all_day"), Shown("show_timed"),
                                   Shown("show_recurring"))
              <=> /\ event.is_all_day => Shown("show_all_day")
                  /\ ~event.is_all_day => Shown("show_timed")
                  /\ event.is_recurring => Shown("show_recurring")
       /\ ~Shown("show_timed") => \A event \in Range(result.value) : event.is_all_day
       /\ ~Shown("show_all_day") => \A event \in Range(result.value) : ~event.is_all_day
       /\ ~Shown("show_recurring") => \A event \in Range(result.value) : ~event.is_recurring

\* with show_recurring false, a list that holds recurring and single events,
\* all-day and timed ones, was filtered down to the single ones of both kinds
C14_Witness ==
    /\ result.op = "filter"
    /\ DOMAIN result.args.filter_criteria = {"show_recurring"}
    /\ ~Shown("show_recurring")
    /\ \E event \in Range(result.args.events) : event.is_recurring /\ event.is_all_day
    /\ \E event \in Range(result.args.events) : event.is_recurring /\ ~event.is_all_day
    /\ \E event \in Range(result.value) : event.is_all_day
    /\ \E event \in Range(result.value) : ~event.is_all_day
    /\ \A event \in Range(result.value) : ~event.is_recurring

\* the text, the date and the type check, as the contract words them
PassesText(event, filter_criteria) ==
    \/ "search_text" \notin DOMAIN filter_criteria
    \/ filter_criteria["search_text"] = EMPTY
    \/ \E field \in {event.title, event.description} \ {None} :
          \E i \in 1..Len(field) :
              /\ i + Len(filter_criteria["search_text"]) - 1 <= Len(field)
              /\ \A k \in 1..Len(filter_criteria["search_text"]) :
                    lower_char(field[i + k - 1])
                        = lower_char(filter_criteria["search_text"][k])

PassesDate(event, filter_criteria) ==
    \/ "from_date" \notin DOMAIN filter_criteria
    \/ "to_date" \notin DOMAIN filter_criteria
    \/ /\ strftime(filter_criteria["from_date"]) <= event.date
       /\ event.date <= strftime(filter_criteria["to_date"])

PassesType(event) ==
    /\ event.is_all_day => Shown("show_all_day")
    /\ ~event.is_all_day => Shown("show_timed")
    /\ event.is_recurring => Shown("show_recurring")

(* C15: filter_events returns the subsequence of the events, in their      *)
(* order, that pass the text check (search_text empty, or a case-          *)
(* insensitive substring of title or description), the date check          *)
(* (from_date or to_date absent, or from_date <= date <= to_date, on the   *)
(* date alone) and the type check; with empty criteria, or with empty      *)
(* text, no dates and all flags true, it returns every event.  An event    *)
(* that has no description passes the text check by its title.             *)
C15_FilterIsSubsequence ==
    result.op = "filter"
    => LET filter_criteria == result.args.filter_criteria
       IN /\ ~result.raised
          /\ result.value =
                 SelectSeq(result.args.events,
                           LAMBDA event : /\ PassesText(event, filter_criteria)
                                          /\ PassesDate(event, filter_criteria)
                                          /\ PassesType(event))
          /\ ( /\ \A key \in {"from_date", "to_date"} : key \notin DOMAIN filter_criteria
               /\ \A key \in {"search_text"} \cap DOMAIN filter_criteria :
                      filter_criteria[key] = EMPTY
               /\ Shown("show_all_day") /\ Shown("show_timed") /\ Shown("show_recurring") )
             => result.value = result.args.events

(* C16: validate_criteria returns a date error iff from_date and to_date   *)
(* are both present and from_date > to_date, a type error iff              *)
(* show_all_day, show_timed and show_recurring are all false (absent       *)
(* flags counting as true), and the empty list iff neither holds.          *)
C16_ValidateCriteria ==
    result.op = "validate"
    => LET filter_criteria == result.args.filter_criteria
           swapped == /\ "from_date" \in DOMAIN filter_criteria
                      /\ "to_date" \in DOMAIN filter_criteria
                      /\ strftime(filter_criteria["from_date"])
                             > strftime(filter_criteria["to_date"])
           nothing_shown == /\ ~Shown("show_all_day")
                            /\ ~Shown("show_timed")
                            /\ ~Shown("show_recurring")
       IN /\ ERR_DATE \in Range(result.value) <=> swapped
          /\ ERR_TYPE \in Range(result.value) <=> nothing_shown
          /\ result.value = << >> <=> ~swapped /\ ~nothing_shown
          /\ Range(result.value) \subseteq {ERR_DATE, ERR_TYPE}

\* criteria with swapped dates and all three flags false got both errors
C16_Witness ==
    /\ result.op = "validate"
    /\ result.value = <<ERR_DATE, ERR_TYPE>>
    /\ {"from_date", "to_date", "show_all_day", "show_timed", "show_recurring"}
           \subseteq DOMAIN result.args.filter_criteria

\* the windows (months_before, months_after) the agenda is asked for
Windows == {<<0, 0>>, <<0, 2>>, <<1, 1>>, <<6, 6>>}

\* the list is in the order of the pair (date, start_time)
SortedByDateAndTime(seq) ==
    \A i \in 1..(Len(seq) - 1) :
        \/ seq[i].date < seq[i + 1].date
        \/ /\ seq[i].date = seq[i + 1].date
           /\ \/ seq[i].start_time = seq[i + 1].start_time
              \/ str_lt(seq[i].start_time, seq[i + 1].start_time)

(* C17: the list for_window returns is sorted non-decreasingly by the pair *)
(* (date, start_time): every two adjacent events are in that order; on an  *)
(* empty store the list is empty.                                           *)
C17_WindowIsSorted ==
    \A window \in Windows :
        /\ SortedByDateAndTime(
               AgendaViewService_get_all_events(events, today, window[1], window[2]))
        /\ SortedByDateAndTime(
               get_events_for_all_months(events, today, window[1], window[2]))
        /\ events = {} =>
               /\ AgendaViewService_get_all_events(events, today, window[1], window[2]) = << >>
               /\ get_events_for_all_months(events, today, window[1], window[2]) = << >>

\* the agenda of a store that holds three events of one day lists them by
\* start time, the one created last first
C17_Witness ==
    LET agenda == AgendaViewService_get_all_events(events, today, 0, 2)
    IN \E i, j, k \in DOMAIN agenda :
          /\ i < j /\ j < k
          /\ agenda[i].date = agenda[k].date
          /\ agenda[i].start_time = PM_01_00
          /\ agenda[j].start_time = AM_09_00
          /\ agenda[k].start_time = ALL_DAY
          /\ agenda[i].event_id > agenda[j].event_id
\* ---- C18: end_day >= start_day in every persisted event ----
\* C18: in every state reachable through create_event, update_event,
\* delete_event and the startup sweep, every persisted event has
\* end_day >= start_day, whatever end_date was passed to create_event
C18_EndDayNotBeforeStartDay == \A e \in events : e.end_day >= e.start_day

\* ---- C19: all-day events keep the ALL_DAY times ----
\* C19: in every state reachable through create_event and update_event
\* (an update of start_time or end_time alone included), every persisted
\* event with is_all_day true has start_time = end_time = ALL_DAY
C19_AllDayHasAllDayTimes ==
    \A e \in events : e.is_all_day => e.start_time = ALL_DAY /\ e.end_time = ALL_DAY

\* ---- C20: is_recurring and recurrence_pattern agree ----
RecurrencePatterns == {DAILY, WEEKLY, MONTHLY, YEARLY}

\* C20: in every state reachable through create_event and update_event
\* (an update of is_recurring or of recurrence_pattern alone included), an
\* event that is not recurring has no recurrence_pattern and a recurring one
\* has one of daily, weekly, monthly, yearly
C20_RecurrenceFieldsAgree ==
    \A e \in events :
        /\ ~e.is_recurring => e.recurrence_pattern = None
        /\ e.is_recurring => e.recurrence_pattern \in RecurrencePatterns

\* ---- C21: no operation raises on a store failure ----
\* C21: when a call of the store fails during create_event, update_event,
\* delete_event or the startup sweep, the operation returns a failure result
\* (the sweep a reduced count) and raises nothing to its caller
C21_NoStoreFailurePropagates == ~result.raised

\* ---- C22: an unrecognized recurrence pattern is rejected ----
\* C22: a recurring create_event whose recurrence_pattern is a non-empty
\* string other than daily, weekly, monthly, yearly fails and persists no
\* event
C22_InvalidPatternIsRejected ==
    (/\ result.op = "create"
     /\ result.args.req.is_recurring
     /\ truthy(result.args.req.recurrence_pattern)
     /\ result.args.req.recurrence_pattern \notin RecurrencePatterns)
        => ~result.success /\ events = prev

\* ---- C23: a single deletion removes exactly one event ----
\* the event that delete_event was called on, as the set of the rows of that id
DeleteTarget == repository_get_event_by_id(prev, result.args.event_id)

\* C23: delete_event(id) with delete_all_recurring false, or on an event that
\* is not recurring, removes the event of that id and nothing else, and
\* get_event_by_id(id) finds nothing afterwards; delete_event of an id that
\* is not stored returns (False, "Event not found") and changes nothing
C23_SingleDeleteRemovesOne ==
    (result.op = "delete" /\ result.args.store_error = NoError) =>
        /\ DeleteTarget = {} =>
              /\ ~result.success
              /\ result.message = MSG_NOT_FOUND
              /\ events = prev
        /\ \A target \in DeleteTarget :
              (~result.args.delete_all_recurring \/ ~target.is_recurring) =>
                  /\ result.success
                  /\ result.message = MSG_DELETED
                  /\ events = prev \ {target}
                  /\ repository_get_event_by_id(events, result.args.event_id) = {}

\* one instance of a series was deleted alone, the event of another create
\* request being stored too
C23_Witness ==
    /\ result.op = "delete"
    /\ result.args.store_error = NoError
    /\ ~result.args.delete_all_recurring
    /\ \E target \in DeleteTarget :
          /\ target.is_recurring
          /\ Cardinality(prev) > NUM_OCCURRENCES
          /\ Cardinality(events) = Cardinality(prev) - 1

\* ---- C24: update_event changes the given fields of one event ----
\* the event that update_event was called on, as the set of the rows of that id
UpdateTarget == repository_get_event_by_id(prev, result.args.event_id)

\* the row that holds the given fields and, elsewhere, the stored values
GivenFieldsOnly(old, fields) ==
    LET given(name) == name \in DOMAIN fields
    IN [event_id |-> old.event_id,
        title |-> IF given("title") THEN fields.title ELSE old.title,
        date |-> IF given("date") THEN strftime(fields.date) ELSE old.date,
        start_day |-> old.start_day,
        end_day |-> old.end_day,
        start_time |-> IF given("start_time") THEN fields.start_time ELSE old.start_time,
        end_time |-> IF given("end_time") THEN fields.end_time ELSE old.end_time,
        description |-> IF given("description") THEN fields.description ELSE old.description,
        is_recurring |-> IF given("is_recurring") THEN fields.is_recurring
                         ELSE old.is_recurring,
        recurrence_pattern |-> IF given("recurrence_pattern") THEN fields.recurrence_pattern
                               ELSE old.recurrence_pattern,
        is_all_day |-> IF given("is_all_day") THEN fields.is_all_day ELSE old.is_all_day]

\* the same, a given date setting start_day and end_day too and a given
\* is_all_day = True setting both times to ALL_DAY
GivenAndDerivedFields(old, fields) ==
    LET given(name) == name \in DOMAIN fields
        all_day == given("is_all_day") /\ fields.is_all_day
    IN [GivenFieldsOnly(old, fields) EXCEPT
           !.start_day = IF given("date") THEN strftime(fields.date) ELSE @,
           !.end_day = IF given("date") THEN strftime(fields.date) ELSE @,
           !.start_time = IF all_day THEN ALL_DAY ELSE @,
           !.end_time = IF all_day THEN ALL_DAY ELSE @]

\* C24: update_event changes only the fields that were given, on the event
\* of that id only, and every other event is unchanged; an unknown id gives
\* (False, "Event not found") and a merged event that fails validation
\* (False, message), the store unchanged in both cases.  A given date counts
\* for start_day and end_day too, and a given is_all_day = True for both
\* times, as the specification describes update; the call returns, it does
\* not raise
C24_UpdateChangesGivenAndDerived ==
    (result.op = "update" /\ result.args.store_error = NoError) =>
        /\ ~result.raised
        /\ UpdateTarget = {} =>
              /\ ~result.success
              /\ result.message = MSG_NOT_FOUND
              /\ events = prev
        /\ \A old \in UpdateTarget :
              LET merged == GivenAndDerivedFields(old, result.args.fields)
                  valid == _validate_event_data(today, merged.title, DateOf(merged.date),
                                                merged.start_time, merged.end_time,
                                                merged.is_all_day, merged.description)
              IN IF valid.ok
                 THEN /\ result.success
                      /\ events = (prev \ {old}) \cup {merged}
                 ELSE /\ ~result.success
                      /\ result.message = valid.message
                      /\ events = prev

\* ---- C25: an event that became past-dated can still be updated ----
\* C25: once today has passed the date of a stored event whose end_day is
\* not before today, an update_event call that gives no date is not rejected
\* because of the date
C25_PastDatedEventCanBeUpdated ==
    (/\ result.op = "update"
     /\ "date" \notin DOMAIN result.args.fields
     /\ \E old \in UpdateTarget : old.date < strftime(today) /\ old.end_day >= strftime(today))
        => result.message # MSG_PAST

\* ---- C26: a retitled instance is out of its series for deletion ----
\* the ids of the create request that persisted the event event_id
BlockOf(event_id) ==
    {id \in 1..(next_id - 1) :
        \E b \in DOMAIN hist.blocks :
            /\ event_id \in hist.blocks[b].first..(hist.blocks[b].first + hist.blocks[b].n - 1)
            /\ id \in hist.blocks[b].first..(hist.blocks[b].first + hist.blocks[b].n - 1)}

\* the instances that an update_event call gave the title RETRO
Retitled(store) == {e \in store : e.is_recurring /\ e.title = RETRO}

\* C26: after update_event changed the title of one instance of a recurring
\* series, delete_event with delete_all_recurring = True on another instance of
\* that series does not delete the retitled instance
C26_RetitledInstanceIsOrphaned ==
    (/\ result.op = "delete"
     /\ result.args.delete_all_recurring
     /\ result.success)
        => \A target \in DeleteTarget, e \in Retitled(prev) :
               (/\ target.is_recurring
                /\ e.event_id # target.event_id
                /\ e.event_id \in BlockOf(target.event_id))
                   => e \in events

\* the first instance of a weekly series was retitled, the series deletion
\* was then called on the second one and removed it, and the retitled
\* instance is still stored
C26_Witness ==
    /\ result.op = "delete"
    /\ result.args.delete_all_recurring
    /\ result.success
    /\ \E target \in DeleteTarget, e \in Retitled(prev) :
          /\ target.is_recurring
          /\ target.title # RETRO
          /\ e.event_id # target.event_id
          /\ e.event_id \in BlockOf(target.event_id)
          /\ target \notin events
          /\ e \in events

\* ---- C27: a new date moves the event and collapses its span ----
\* the ids of the events the day view shows for the day date_str
ShownOn(date_str) == EventIds(DayViewService_get_events_for_date(events, DateOf(date_str)))

\* C27: an update_event call that gives a date sets start_day and end_day of
\* the event to that date, of a multi-day event too; afterwards the day view
\* shows the event on the new date and no longer on the days it was on
C27_NewDateMovesEvent ==
    (/\ result.op = "update"
     /\ result.success
     /\ "date" \in DOMAIN result.args.fields)
        => \A old \in UpdateTarget :
               LET date_str == strftime(result.args.fields.date)
                   event_id == result.args.event_id
               IN /\ \A e \in repository_get_event_by_id(events, event_id) :
                         /\ e.date = date_str
                         /\ e.start_day = date_str
                         /\ e.end_day = date_str
                  /\ event_id \in ShownOn(date_str)
                  /\ \A day \in {old.date, old.start_day, old.end_day} \ {date_str} :
                         event_id \notin ShownOn(day)

\* an event that spanned sixty days was moved to the next day and is a
\* one-day event now
C27_Witness ==
    /\ result.op = "update"
    /\ result.success
    /\ DOMAIN result.args.fields = {"date"}
    /\ \E old \in UpdateTarget :
          /\ old.end_day > old.start_day
          /\ old.start_day # strftime(result.args.fields.date)
          /\ old.event_id \in EventIds(DayViewService_get_events_for_date(
                                           prev, DateOf(old.end_day)))
          /\ old.event_id \notin ShownOn(old.end_day)
          /\ old.event_id \in ShownOn(strftime(result.args.fields.date))

\* ---- C28: criteria that pass validation can match some event ----
\* C28: whenever validate_filter_criteria reports no error, some kind of
\* event (all-day or timed, recurring or not) passes the type check of
\* filter_events under these criteria
C28_ValidCriteriaCanMatch ==
    (result.op = "validate" /\ result.value = << >>) =>
        \E is_all_day \in BOOLEAN, is_recurring \in BOOLEAN :
            _matches_type_filter([is_all_day |-> is_all_day, is_recurring |-> is_recurring],
                                 Shown("show_all_day"), Shown("show_timed"),
                                 Shown("show_recurring"))

\* ---- C29: a series deletion stays inside its series ----
\* C29: delete_event with delete_all_recurring = True on an instance of a
\* series removes no event that another create_event call persisted, even one
\* of the same title, recurrence_pattern and date
C29_SeriesDeleteStaysInSeries ==
    (/\ result.op = "delete"
     /\ result.args.delete_all_recurring
     /\ result.success)
        => \A e \in prev \ events : e.event_id \in BlockOf(result.args.event_id)

\* ---- C30: the sweep does not look back further than 12 months ----
\* the first day of the month 12 months before the month of td
WindowStart(td) == strftime(Date(td.year - 1, td.month, 1))

\* the events that ended before the months the sweep of the day td scans
BeforeWindow(store, td) == {e \in store : e.end_day < WindowStart(td)}

\* C30: an event whose end_day is before the first day of the month 12
\* months before today's month is returned by none of the 13 month queries
\* of the sweep, which neither deletes nor counts it: it stays in the store
C30_SweepIsBoundedByWindow ==
    result.op = "sweep" =>
        /\ \A e \in BeforeWindow(prev, today) :
              /\ e \in events
              /\ \A back \in 0..12 :
                    LET target == adjust_year_boundaries(today.year, today.month - back)
                    IN e.event_id \notin EventIds(repository_get_events_for_month(
                                                      prev, target.year, target.month))
        /\ ~result.raised => result.count = Cardinality(prev \ events)

\* a sweep deleted the events of the scanned months and left events that
\* ended before them
C30_Witness ==
    /\ result.op = "sweep"
    /\ ~result.raised
    /\ result.count > 0
    /\ BeforeWindow(prev, today) # {}
    /\ events = BeforeWindow(prev, today)

====
